---- MODULE Spec2Model ----
(***************************************************************************)
(* Model of moat.micro.proto.reliable.Reliable: two endpoints "a" and "b"  *)
(* joined by one frame channel per direction.                              *)
(*                                                                         *)
(* ep[e] holds the fields of the Reliable object of endpoint e, under the  *)
(* names the source gives them.  net[e] is the sequence of frames on their *)
(* way to e.  Clock values are abstracted: a deadline is either armed or   *)
(* not, and an armed deadline may expire at any step.  in_reset holds      *)
(* "None" (constructor), "False" (handshake done) or "ticks" (a non-zero   *)
(* tick value, i.e. truthy).  A ValueEvent is "wait" until set, then "ok"  *)
(* (set) or "err" (set_error); the i-th message submitted on an endpoint   *)
(* has payload i and waiter evt[i].  delivered[e] is the history of the    *)
(* payloads e has put into its receive queue rq, kept up to MaxMsgs + 1    *)
(* entries (enough to see the first payload that is out of place).  adv    *)
(* counts the frames the transport has delivered out of order, i.e. ahead  *)
(* of a frame that was sent earlier.                                       *)
(***************************************************************************)
EXTENDS Integers, Sequences, FiniteSets, TLC

VARIABLES ep, net, adv, req, disp, wrap, apps, strm, rd, prx, cfg, tmr, rl, sa

vars == <<ep, net, adv, req, disp, wrap, apps, strm, rd, prx, cfg, tmr, rl, sa>>

\* ---- frames
\* the variables of the other components, and their values while those
\* components are not looked at
Idle == [pc |-> "none"]

side == <<wrap, apps, strm, rd, prx, cfg, tmr, rl, sa>>

idle_side == wrap = Idle /\ apps = Idle /\ strm = Idle /\ rd = Idle /\ prx = Idle /\ cfg = Idle /\ tmr = Idle /\ rl = Idle /\ sa = Idle

but_wrap == <<ep, net, adv, req, disp, apps, strm, rd, prx, cfg, tmr, rl, sa>>

idle_but_wrap == apps = Idle /\ strm = Idle /\ rd = Idle /\ prx = Idle /\ cfg = Idle /\ tmr = Idle /\ rl = Idle /\ sa = Idle

but_apps == <<ep, net, adv, req, disp, wrap, strm, rd, prx, cfg, tmr, rl, sa>>

idle_but_apps == wrap = Idle /\ strm = Idle /\ rd = Idle /\ prx = Idle /\ cfg = Idle /\ tmr = Idle /\ rl = Idle /\ sa = Idle

but_strm == <<ep, net, adv, req, disp, wrap, apps, rd, prx, cfg, tmr, rl, sa>>

idle_but_strm == wrap = Idle /\ apps = Idle /\ rd = Idle /\ prx = Idle /\ cfg = Idle /\ tmr = Idle /\ rl = Idle /\ sa = Idle

but_rd == <<ep, net, adv, req, disp, wrap, apps, strm, prx, cfg, tmr, rl, sa>>

idle_but_rd == wrap = Idle /\ apps = Idle /\ strm = Idle /\ prx = Idle /\ cfg = Idle /\ tmr = Idle /\ rl = Idle /\ sa = Idle

but_prx == <<ep, net, adv, req, disp, wrap, apps, strm, rd, cfg, tmr, rl, sa>>

idle_but_prx == wrap = Idle /\ apps = Idle /\ strm = Idle /\ rd = Idle /\ cfg = Idle /\ tmr = Idle /\ rl = Idle /\ sa = Idle

but_cfg == <<ep, net, adv, req, disp, wrap, apps, strm, rd, prx, tmr, rl, sa>>

idle_but_cfg == wrap = Idle /\ apps = Idle /\ strm = Idle /\ rd = Idle /\ prx = Idle /\ tmr = Idle /\ rl = Idle /\ sa = Idle

but_tmr == <<ep, net, adv, req, disp, wrap, apps, strm, rd, prx, cfg, rl, sa>>

idle_but_tmr == wrap = Idle /\ apps = Idle /\ strm = Idle /\ rd = Idle /\ prx = Idle /\ cfg = Idle /\ rl = Idle /\ sa = Idle

but_rl == <<ep, net, adv, req, disp, wrap, apps, strm, rd, prx, cfg, tmr, sa>>

idle_but_rl == wrap = Idle /\ apps = Idle /\ strm = Idle /\ rd = Idle /\ prx = Idle /\ cfg = Idle /\ tmr = Idle /\ sa = Idle

but_sa == <<ep, net, adv, req, disp, wrap, apps, strm, rd, prx, cfg, tmr, rl>>

idle_but_sa == wrap = Idle /\ apps = Idle /\ strm = Idle /\ rd = Idle /\ prx = Idle /\ cfg = Idle /\ tmr = Idle /\ rl = Idle

\* ---- end of frames

\* the variables of the layers above the reliable layer
upper == <<req, disp, side>>

\* the variables of the reliable layer
lower == <<ep, net, adv>>

E == {"a", "b"}

Peer(e) == IF e = "a" THEN "b" ELSE "a"

\* ---- bounds of the model
MaxMsgs == 5
MaxQueue == 1
MaxNet == 2
MaxRuns == 2
MaxRunMsgs == 1
MaxAdv == 1
MaxLiveMsgs == 3
MaxCallers == 2
MaxOpen == 2
MaxSeq == 2
MaxTasks == 2
MaxReqId == 2
MaxAct == 3
MaxRetry == 4
MaxDelay == 3
MaxChildRuns == 6
MaxPasses == 3
MaxFrames == 3
MaxItems == 3
MaxBody == 2
MaxTrips == 2
MaxPath == 2
MaxSuffix == 1
MaxClock == 4
MaxSends == 3

\* ---- constructor arguments of the two endpoints (window >= 4)
WindowA == 4
WindowB == 5
TimeoutA == 1
TimeoutB == 2
WindowDefault == 8

Max(x, y) == IF x >= y THEN x ELSE y
Min(x, y) == IF x <= y THEN x ELSE y

EmptyMap == [j \in {} |-> 0]
MapPut(f, k, v) == [j \in (DOMAIN f) \cup {k} |-> IF j = k THEN v ELSE f[j]]
MapPop(f, k) == [j \in (DOMAIN f) \ {k} |-> f[j]]

\* ---- frames.  d = 0 is NotGiven (no payload); m = 0 is "no config";
\*      e = "" is "no error".
CtlMsg(n, t, m) ==
    [a |-> "r", n |-> n, t |-> t, m |-> m, s |-> 0, r |-> 0, x |-> <<>>, d |-> 0,
     e |-> ""]

DataMsg(s, r, x, d) ==
    [a |-> "", n |-> 0, t |-> 0, m |-> 0, s |-> s, r |-> r, x |-> x, d |-> d,
     e |-> ""]

\* F applied to the value of v
Bind(v, F(_)) == CHOOSE r \in {F(x) : x \in {v}} : TRUE

\* ---- Reliable.__init__
Construct(w, t, p) ==
    [window |-> w, timeout |-> t, persist |-> p, in_reset |-> "None", closed |-> TRUE,
     reset_level |-> 0,
     s_send_head |-> 0, s_send_tail |-> 0, s_recv_head |-> 0, s_recv_tail |-> 0,
     s_q |-> <<>>, m_send |-> EmptyMap, m_recv |-> EmptyMap,
     t_recv |-> FALSE, pend_ack |-> FALSE,
     rq |-> <<>>, rqcap |-> 0, is_up |-> FALSE,
     evt |-> <<>>, put |-> 0, run |-> "new", bg |-> FALSE, nrun |-> 0,
     delivered |-> <<>>]

\* reset that keeps the send table and the pending-send queue
reset_keep_sends(s, level) ==
    [s EXCEPT !.s_send_head = 0, !.s_send_tail = 0,
              !.s_recv_head = 0, !.s_recv_tail = 0,
              !.m_recv = EmptyMap,
              !.t_recv = FALSE, !.in_reset = "ticks",
              !.reset_level = level, !.pend_ack = TRUE, !.closed = FALSE,
              !.rqcap = IF s.rqcap = 0 THEN s.window ELSE s.rqcap]

\* ---- Reliable.reset
reset(s, level) ==
    [s EXCEPT !.s_send_head = 0, !.s_send_tail = 0,
              !.s_recv_head = 0, !.s_recv_tail = 0,
              !.s_q = <<>>, !.m_send = EmptyMap, !.m_recv = EmptyMap,
              !.t_recv = FALSE, !.in_reset = "ticks",
              !.reset_level = level, !.pend_ack = TRUE, !.closed = FALSE,
              !.rqcap = IF s.rqcap = 0 THEN s.window ELSE s.rqcap]

InReset(s) == s.in_reset = "ticks"

\* update_config that takes the larger window
update_config_max(s, c) ==
    [s EXCEPT !.timeout = Max(s.timeout, c.t),
              !.window = Max(4, Max(s.window, IF c.m = 0 THEN s.window ELSE c.m))]

\* ---- Reliable._get_config / _update_config
update_config(s, c) ==
    [s EXCEPT !.timeout = Max(s.timeout, c.t),
              !.window = Max(4, Min(s.window, IF c.m = 0 THEN s.window ELSE c.m))]

\* reset_done that leaves the is-up event alone
reset_done_quiet(s) ==
    IF InReset(s) THEN [s EXCEPT !.in_reset = "False"] ELSE s

\* ---- Reliable._reset_done
reset_done(s) ==
    IF InReset(s) THEN [s EXCEPT !.in_reset = "False", !.is_up = TRUE] ELSE s

\* ---- Reliable.send_reset(level, err): the new state and the frame handed to
\*      parent.send
send_reset_err(s, lvl, err) ==
    LET level == IF s.closed THEN 0 ELSE IF lvl # 0 THEN lvl ELSE s.reset_level
        s1 == IF ~s.closed /\ lvl # 0 THEN [s EXCEPT !.reset_level = lvl] ELSE s
        msg == IF level # 0 THEN CtlMsg(level, s1.timeout, s1.window)
                            ELSE CtlMsg(0, 0, 0)
        s2 == IF s1.reset_level < 3 THEN [s1 EXCEPT !.in_reset = "ticks"] ELSE s1
    IN  [s |-> s2, out |-> <<[msg EXCEPT !.e = err]>>]

\* ---- Reliable.send_reset(level), err=None
send_reset(s, lvl) == send_reset_err(s, lvl, "")

\* ---- Reliable.between
between(w, a, b, c) == ((b - a) % w) <= ((c - a) % w)

\* XList that lists nothing
XListNone(s, r) == <<>>

\* ---- Reliable.send_msg: the list x of seqs received out of order
RECURSIVE XList(_, _)
XList(s, r) ==
    IF r = s.s_recv_head THEN <<>>
    ELSE (IF r \in DOMAIN s.m_recv THEN <<r>> ELSE <<>>)
         \o XList(s, (r + 1) % s.window)

\* ---- Reliable.send_msg(k); k = -1 stands for k=None (a bare ack)
send_msg(s, k) ==
    IF k = -1 /\ ~s.pend_ack THEN [s |-> s, out |-> <<>>]
    ELSE LET msg == IF k = -1
                    THEN DataMsg(s.s_send_head, s.s_recv_tail, XList(s, s.s_recv_tail), 0)
                    ELSE DataMsg(k, s.s_recv_tail, XList(s, s.s_recv_tail), s.m_send[k])
         IN  [s |-> [s EXCEPT !.pend_ack = FALSE], out |-> <<msg>>]

\* ---- ValueEvent.set / set_error on waiter i: the first completion stays
EvtSet(s, i, v) ==
    IF s.evt[i] = "wait" THEN [s EXCEPT !.evt[i] = v] ELSE s


\* AckLoop that also frees the entry at the peer's r
RECURSIVE AckLoopIncl(_, _, _)
AckLoopIncl(s, rr, tgt) ==
    IF rr = s.s_send_head THEN [s EXCEPT !.s_send_tail = rr]
    ELSE LET s1 == IF rr \in DOMAIN s.m_send
                   THEN [EvtSet(s, s.m_send[rr], "ok")
                            EXCEPT !.m_send = MapPop(s.m_send, rr), !.pend_ack = TRUE]
                   ELSE s
         IN  IF rr = tgt THEN [s1 EXCEPT !.s_send_tail = (rr + 1) % s.window]
             ELSE AckLoopIncl(s1, (rr + 1) % s.window, tgt)

\* ---- Reliable.dispatch, "process ACKs": free what lies before the peer's r
RECURSIVE AckLoop(_, _, _)
AckLoop(s, rr, tgt) ==
    IF rr = tgt \/ rr = s.s_send_head THEN [s EXCEPT !.s_send_tail = rr]
    ELSE LET s1 == IF rr \in DOMAIN s.m_send
                   THEN [EvtSet(s, s.m_send[rr], "ok")
                            EXCEPT !.m_send = MapPop(s.m_send, rr), !.pend_ack = TRUE]
                   ELSE s
         IN  AckLoop(s1, (rr + 1) % s.window, tgt)

\* ---- Reliable.dispatch, "for rr in x": set the waiter, keep the entry
RECURSIVE XAck(_, _)
XAck(s, x) ==
    IF x = <<>> THEN s
    ELSE XAck(IF Head(x) \in DOMAIN s.m_send
              THEN EvtSet(s, s.m_send[Head(x)], "ok") ELSE s, Tail(x))

\* StoreData without the limit of window/2 on the distance from s_recv_tail
StoreDataAnyDistance(s, r, d) ==
    LET w == s.window
        tl == s.s_recv_tail
        hd == s.s_recv_head
    IN  IF d # 0
        THEN LET s1 == [s EXCEPT !.pend_ack = TRUE]
             IN  IF between(w, tl, hd, r)
                 THEN [s1 EXCEPT !.m_recv = MapPut(s.m_recv, r, d),
                                 !.s_recv_head = (r + 1) % w]
                 ELSE IF between(w, tl, r, hd)
                      THEN [s1 EXCEPT !.m_recv = MapPut(s.m_recv, r, d)]
                      ELSE s1
        ELSE IF between(w, tl, hd, r) /\ (r - tl) % w <= w \div 2
             THEN [s EXCEPT !.s_recv_head = r]
             ELSE s

\* StoreData that ignores a message between s_recv_tail and s_recv_head
StoreDataIgnoreHeld(s, r, d) ==
    LET w == s.window
        tl == s.s_recv_tail
        hd == s.s_recv_head
    IN  IF d # 0
        THEN LET s1 == [s EXCEPT !.pend_ack = TRUE]
             IN  IF between(w, tl, hd, r) /\ (r - tl) % w < w \div 2
                 THEN [s1 EXCEPT !.m_recv = MapPut(s.m_recv, r, d),
                                 !.s_recv_head = (r + 1) % w]
                 ELSE s1
        ELSE IF between(w, tl, hd, r) /\ (r - tl) % w <= w \div 2
             THEN [s EXCEPT !.s_recv_head = r]
             ELSE s

\* StoreData that stores a new message without moving s_recv_head
StoreDataKeepHead(s, r, d) ==
    LET w == s.window
        tl == s.s_recv_tail
        hd == s.s_recv_head
    IN  IF d # 0
        THEN LET s1 == [s EXCEPT !.pend_ack = TRUE]
             IN  IF between(w, tl, hd, r)
                 THEN IF (r - tl) % w < w \div 2
                      THEN [s1 EXCEPT !.m_recv = MapPut(s.m_recv, r, d)]
                      ELSE s1
                 ELSE IF between(w, tl, r, hd)
                      THEN [s1 EXCEPT !.m_recv = MapPut(s.m_recv, r, d)]
                      ELSE s1
        ELSE IF between(w, tl, hd, r) /\ (r - tl) % w <= w \div 2
             THEN [s EXCEPT !.s_recv_head = r]
             ELSE s

\* ---- Reliable.dispatch, the receive window update for seq r and payload d
StoreData(s, r, d) ==
    LET w == s.window
        tl == s.s_recv_tail
        hd == s.s_recv_head
    IN  IF d # 0
        THEN LET s1 == [s EXCEPT !.pend_ack = TRUE]
             IN  IF between(w, tl, hd, r)
                 THEN IF (r - tl) % w < w \div 2
                      THEN [s1 EXCEPT !.m_recv = MapPut(s.m_recv, r, d),
                                      !.s_recv_head = (r + 1) % w]
                      ELSE s1
                 ELSE IF between(w, tl, r, hd)
                      THEN [s1 EXCEPT !.m_recv = MapPut(s.m_recv, r, d)]
                      ELSE s1
        ELSE IF between(w, tl, hd, r) /\ (r - tl) % w <= w \div 2
             THEN [s EXCEPT !.s_recv_head = r]
             ELSE s

\* ---- the history of rq.put
Record(h, d) == IF Len(h) <= MaxMsgs THEN Append(h, d) ELSE h

\* Drain that puts into rq whether or not there is room
RECURSIVE DrainAll(_)
DrainAll(s) ==
    IF s.s_recv_tail = s.s_recv_head \/ s.s_recv_tail \notin DOMAIN s.m_recv THEN s
    ELSE LET rr == s.s_recv_tail
             d == s.m_recv[rr]
         IN  DrainAll([s EXCEPT !.m_recv = MapPop(s.m_recv, rr),
                                !.s_recv_tail = (rr + 1) % s.window,
                                !.pend_ack = TRUE,
                                !.rq = Append(s.rq, d),
                                !.delivered = Record(s.delivered, d)])

\* Drain that steps over a missing message instead of stopping at it
RECURSIVE DrainSkip(_)
DrainSkip(s) ==
    IF s.s_recv_tail = s.s_recv_head THEN s
    ELSE LET rr == s.s_recv_tail
             s1 == [s EXCEPT !.m_recv = MapPop(s.m_recv, rr),
                             !.s_recv_tail = (rr + 1) % s.window,
                             !.pend_ack = TRUE]
         IN  IF rr \notin DOMAIN s.m_recv THEN DrainSkip(s1)
             ELSE IF Len(s1.rq) >= s1.rqcap
             THEN [s1 EXCEPT !.put = s.m_recv[rr]]
             ELSE DrainSkip([s1 EXCEPT !.rq = Append(s1.rq, s.m_recv[rr]),
                                       !.delivered = Record(s1.delivered, s.m_recv[rr])])

\* ---- Reliable.dispatch, "Forward incoming messages": stops with put # 0
\*      when rq is full, i.e. the reader is suspended inside rq.put
RECURSIVE Drain(_)
Drain(s) ==
    IF s.s_recv_tail = s.s_recv_head \/ s.s_recv_tail \notin DOMAIN s.m_recv THEN s
    ELSE LET rr == s.s_recv_tail
             d == s.m_recv[rr]
             s1 == [s EXCEPT !.m_recv = MapPop(s.m_recv, rr),
                             !.s_recv_tail = (rr + 1) % s.window,
                             !.pend_ack = TRUE]
         IN  IF Len(s1.rq) >= s1.rqcap
             THEN [s1 EXCEPT !.put = d]
             ELSE Drain([s1 EXCEPT !.rq = Append(s1.rq, d),
                                   !.delivered = Record(s1.delivered, d)])

\* DispatchTail that answers every message with an ack
DispatchTailAlways(s) ==
    Bind(Drain(s), LAMBDA s1 :
        IF s1.put # 0 THEN [s |-> s1, out |-> <<>>]
        ELSE send_msg([s1 EXCEPT !.t_recv = (s1.s_recv_tail # s1.s_recv_head),
                                 !.pend_ack = TRUE], -1))

\* ---- Reliable.dispatch from the forwarding loop to its end
DispatchTail(s) ==
    Bind(Drain(s), LAMBDA s1 :
        IF s1.put # 0 THEN [s |-> s1, out |-> <<>>]
        ELSE send_msg([s1 EXCEPT !.t_recv = (s1.s_recv_tail # s1.s_recv_head)], -1))

\* ---- Reliable.dispatch, a message without action, endpoint up
DispatchData(s, msg) ==
    IF ~(0 <= msg.s /\ msg.s < s.window) \/ ~(0 <= msg.r /\ msg.r < s.window)
    THEN send_reset_err(reset(s, 1), 0, "R/S out of bounds")
    ELSE Bind(StoreData(s, msg.s, msg.d), LAMBDA s1 :
         Bind(AckLoop(s1, s.s_send_tail, msg.r), LAMBDA s2 :
         Bind(XAck(s2, msg.x), DispatchTail)))

\* DispatchClosed that answers every message
DispatchClosedAlways(s) ==
    LET o == send_reset(s, 0)
    IN  [s |-> [o.s EXCEPT !.reset_level = 0], out |-> o.out]

\* ---- Reliable.dispatch, "if self.closed": answer some messages only
DispatchClosed(s) ==
    IF s.reset_level > 2
    THEN LET o == send_reset(s, 0)
         IN  [s |-> [o.s EXCEPT !.reset_level = 0], out |-> o.out]
    ELSE [s |-> [s EXCEPT !.reset_level = s.reset_level + 1], out |-> <<>>]

\* DispatchCtl that takes n=3 as the end of the handshake in every phase
DispatchCtlAck2(s, msg) ==
    IF msg.n = 0
    THEN DispatchClosed([s EXCEPT !.closed = TRUE, !.is_up = FALSE])
    ELSE IF s.closed THEN send_reset(s, 0)
    ELSE IF msg.n = 1
    THEN LET s1 == IF InReset(s)
                   THEN (IF s.reset_level = 1 THEN [s EXCEPT !.reset_level = 2] ELSE s)
                   ELSE reset(s, 2)
         IN  send_reset(update_config(s1, msg), 0)
    ELSE IF msg.n = 2
    THEN LET o == send_reset(update_config(s, msg), 3)
         IN  [s |-> reset_done(o.s), out |-> o.out]
    ELSE IF msg.n = 3
    THEN [s |-> reset_done(update_config(s, msg)), out |-> <<>>]
    ELSE [s |-> s, out |-> <<>>]

\* ---- Reliable.dispatch, a == 'r'
DispatchCtl(s, msg) ==
    IF msg.n = 0
    THEN DispatchClosed([s EXCEPT !.closed = TRUE, !.is_up = FALSE])
    ELSE IF s.closed THEN send_reset(s, 0)
    ELSE IF msg.n = 1
    THEN LET s1 == IF InReset(s)
                   THEN (IF s.reset_level = 1 THEN [s EXCEPT !.reset_level = 2] ELSE s)
                   ELSE reset(s, 2)
         IN  send_reset(update_config(s1, msg), 0)
    ELSE IF msg.n = 2
    THEN LET o == send_reset(update_config(s, msg), 3)
         IN  [s |-> reset_done(o.s), out |-> o.out]
    ELSE IF msg.n = 3
    THEN IF ~InReset(s) \/ s.reset_level > 1
         THEN [s |-> reset_done(update_config(s, msg)), out |-> <<>>]
         ELSE send_reset(reset(s, 1), 0)
    ELSE [s |-> s, out |-> <<>>]

\* ---- Reliable.dispatch
dispatch(s, msg) ==
    IF msg.a = "r" THEN DispatchCtl(s, msg)
    ELSE IF msg.a # "" THEN [s |-> s, out |-> <<>>]
    ELSE IF s.closed THEN DispatchClosed(s)
    ELSE IF InReset(s) /\ s.reset_level < 2 THEN send_reset(s, 0)
    ELSE DispatchData(reset_done(s), msg)

\* ---- Reliable.run, the finally clause
RECURSIVE FailAll(_, _)
FailAll(s, ids) ==
    IF ids = {} THEN s
    ELSE LET i == CHOOSE j \in ids : TRUE
         IN  FailAll(EvtSet(s, i, "err"), ids \ {i})

Teardown(s) ==
    LET ids == {s.m_send[k] : k \in DOMAIN s.m_send} \cup {s.s_q[j] : j \in DOMAIN s.s_q}
        s1 == FailAll(s, ids)
    IN  [s |-> [s1 EXCEPT !.closed = TRUE, !.s_q = <<>>, !.is_up = FALSE,
                          !.run = "done", !.bg = FALSE, !.put = 0],
         out |-> IF s.closed THEN <<>> ELSE <<CtlMsg(0, 0, 0)>>]


\* ---- the frame channel: what e emits is appended to the peer's channel
RemoveAt(q, i) == SubSeq(q, 1, i - 1) \o SubSeq(q, i + 1, Len(q))

Room(e, out) == Len(net[Peer(e)]) + Len(out) <= MaxNet

Emit(e, o) ==
    /\ Room(e, o.out)
    /\ ep' = [ep EXCEPT ![e] = o.s]
    /\ net' = [net EXCEPT ![Peer(e)] = net[Peer(e)] \o o.out]
    /\ UNCHANGED <<adv, upper>>

ReaderIdle(e) == ep[e].run \in {"reset", "child"} /\ ep[e].put = 0

\* ---- Reliable.run up to the spawn of the reader and the background task;
\*      run may be called again after it has ended
Start(e) ==
    /\ ep[e].run \in {"new", "done"}
    /\ ep[e].nrun < MaxRuns
    /\ ep' = [ep EXCEPT ![e] = [reset(ep[e], 1) EXCEPT !.run = "reset", !.bg = TRUE,
                                                     !.nrun = ep[e].nrun + 1]]
    /\ UNCHANGED <<net, adv, upper>>

\* ---- Reliable.run, "while self.in_reset": the deadline in_reset has passed
ResetTimer(e) ==
    /\ ep[e].run = "reset"
    /\ InReset(ep[e])
    /\ Emit(e, send_reset(ep[e], 0))

\* ---- Reliable.run, after the loop: raise EOFError if closed, else run the child
RunUp(e) ==
    /\ ep[e].run = "reset"
    /\ ~InReset(ep[e])
    /\ IF ep[e].closed
       THEN Emit(e, Teardown(ep[e]))
       ELSE /\ ep' = [ep EXCEPT ![e].run = "child"]
            /\ UNCHANGED <<net, adv, upper>>

\* ---- Reliable.run ends: the child returned, or the task group was cancelled
RunExit(e) ==
    /\ ep[e].run \in {"reset", "child"}
    /\ Emit(e, Teardown(ep[e]))

\* ---- Reliable._read: the frame at position i arrives and is dispatched;
\*      the transport keeps a copy of it if keep
Deliver(e, i, keep) ==
    /\ ReaderIdle(e)
    /\ i \in 1..Len(net[e])
    /\ adv' = IF i = 1 THEN adv ELSE adv + 1
    /\ adv' <= MaxAdv
    /\ UNCHANGED upper
    /\ \E o \in {dispatch(ep[e], net[e][i])} :
           /\ Room(e, o.out)
           /\ ep' = [ep EXCEPT ![e] = o.s]
           /\ net' = [net EXCEPT ![e] = IF keep THEN net[e] ELSE RemoveAt(net[e], i),
                                 ![Peer(e)] = net[Peer(e)] \o o.out]

\* ---- the transport loses the frame at position i
Lose(e, i) ==
    /\ i \in 1..Len(net[e])
    /\ net' = [net EXCEPT ![e] = RemoveAt(net[e], i)]
    /\ UNCHANGED <<ep, adv, upper>>

\* ---- Reliable.dispatch resumes when rq.put returns
PutDone(e) ==
    /\ ep[e].run \in {"reset", "child"}
    /\ ep[e].put # 0
    /\ Len(ep[e].rq) < ep[e].rqcap
    /\ Emit(e, DispatchTail([ep[e] EXCEPT !.rq = Append(ep[e].rq, ep[e].put),
                                          !.delivered = Record(ep[e].delivered, ep[e].put),
                                          !.put = 0]))

\* ---- Reliable.recv: the upper layer takes one payload
Recv(e) ==
    /\ ep[e].rq # <<>>
    /\ ep' = [ep EXCEPT ![e].rq = Tail(ep[e].rq)]
    /\ UNCHANGED <<net, adv, upper>>

\* ---- Reliable.send: the upper layer submits its next message.  The upper
\*      layer runs once the handshake is done (run, "self.child.run()"), or
\*      from the start when the endpoint is persistent (run_p).  At most
\*      MaxQueue callers wait in the pending-send queue.
Send(e, quota) ==
    /\ ep[e].run = "child" \/ (ep[e].persist /\ ep[e].run = "reset")
    /\ ~ep[e].closed
    /\ Len(ep[e].evt) < quota
    /\ Len(ep[e].s_q) < MaxQueue
    /\ ep' = [ep EXCEPT ![e].evt = Append(ep[e].evt, "wait"),
                        ![e].s_q = Append(ep[e].s_q, Len(ep[e].evt) + 1)]
    /\ UNCHANGED <<net, adv, upper>>

\* BgSend with "<=" for "<" in the test for room in the window
BgSendWide(e) ==
    /\ ep[e].bg
    /\ ep[e].s_q # <<>>
    /\ (ep[e].s_send_head - ep[e].s_send_tail) % ep[e].window <= ep[e].window \div 2
    /\ LET s == ep[e]
           seq == s.s_send_head
           s1 == [s EXCEPT !.s_q = Tail(s.s_q),
                           !.s_send_head = (seq + 1) % s.window,
                           !.m_send = MapPut(s.m_send, seq, Head(s.s_q)),
                           !.bg = ~s.closed]
       IN  Emit(e, send_msg(s1, seq))

\* ---- Reliable._run_bg, "process pending-send queue"
BgSend(e) ==
    /\ ep[e].bg
    /\ ep[e].s_q # <<>>
    /\ (ep[e].s_send_head - ep[e].s_send_tail) % ep[e].window < ep[e].window \div 2
    /\ LET s == ep[e]
           seq == s.s_send_head
           s1 == [s EXCEPT !.s_q = Tail(s.s_q),
                           !.s_send_head = (seq + 1) % s.window,
                           !.m_send = MapPut(s.m_send, seq, Head(s.s_q)),
                           !.bg = ~s.closed]
       IN  Emit(e, send_msg(s1, seq))

\* ---- Reliable._run_bg, "while not self.closed" ends the task
BgExit(e) ==
    /\ ep[e].bg
    /\ ep[e].closed
    /\ ep' = [ep EXCEPT ![e].bg = FALSE]
    /\ UNCHANGED <<net, adv, upper>>

\* ---- Reliable._run_bg, the choice of the earliest deadline: that of an
\*      entry k of m_send whose waiter is not set, or t_recv when k = -1
Expired(s, k) ==
    /\ s.bg
    /\ ~s.closed
    /\ IF k = -1 THEN s.t_recv
       ELSE k \in DOMAIN s.m_send /\ s.evt[s.m_send[k]] = "wait"

\* ---- Reliable._run_bg, "# work": retransmit entry k, send the pending ack,
\*      arm t_recv again
Work(s, k) ==
    LET o1 == IF k = -1 THEN [s |-> s, out |-> <<>>] ELSE send_msg(s, k)
        o2 == send_msg(o1.s, -1)
        s3 == IF k = -1 THEN [o2.s EXCEPT !.t_recv = TRUE] ELSE o2.s
    IN  [s |-> s3, out |-> o1.out \o o2.out]

\* BgTimeout that sends the pending ack but does not retransmit entry k
BgTimeoutAckOnly(e, k) ==
    /\ ep[e].bg
    /\ ~ep[e].closed
    /\ IF k = -1 THEN ep[e].t_recv
       ELSE k \in DOMAIN ep[e].m_send /\ ep[e].evt[ep[e].m_send[k]] = "wait"
    /\ LET o2 == send_msg(ep[e], -1)
           s3 == IF k = -1 THEN [o2.s EXCEPT !.t_recv = TRUE] ELSE o2.s
       IN  Emit(e, [s |-> s3, out |-> o2.out])

\* ---- Reliable._run_bg, "if ntx is not None and ntx <= 0": the earliest
\*      deadline is that of entry k, or t_recv when k = -1
BgTimeout(e, k) ==
    /\ Expired(ep[e], k)
    /\ Emit(e, Work(ep[e], k))

\* ---------------------------------------------------------------------------
\* The request layer: moat.micro.cmd.Request
\* ---------------------------------------------------------------------------
\* req holds the fields of one Request object (seq, reply), the position of
\* its run method, the send calls of its callers, the handler tasks of its
\* task group, and its link: wire holds the requests the peer has not yet
\* answered, inbox the messages on their way to Request.dispatch, wrote the
\* messages the last step handed to parent.send.  In a message a = 0, i = 0,
\* d = 0, e = 0 stand for None.  gone is "no" for a message of a send call
\* that is still waiting, "late" once that call was cancelled, "old" once it
\* has returned, and "in" for a request or notification of the peer.  In the
\* record of a call skip tells that the id was found by skipping a live one.
\* tasks holds the ids of the requests whose handler task is running; ended
\* tells which handler task the last step has ended, and how.

Callers == 1..MaxCallers

\* ---- ValueEvent: not set, set(v), set_error(remote error), set_error(CancelledError)
Unset == [st |-> "wait", v |-> 0]
IsSet(w) == w.st # "wait"
SetValue(v) == [st |-> "ok", v |-> v]
SetError == [st |-> "err", v |-> 0]
SetCancelled == [st |-> "cancel", v |-> 0]
SetClosed == [st |-> "closed", v |-> 0]

ReqMsg(i) == [a |-> 1, i |-> i, d |-> 0, e |-> 0, gone |-> "no"]

\* ---- Request.__init__
NewRequest ==
    [run |-> "new", seq |-> 0, reply |-> EmptyMap,
     call |-> [c \in Callers |-> [pc |-> "idle", id |-> 0, skip |-> FALSE]],
     tasks |-> <<>>, wire |-> {}, inbox |-> {}, wrote |-> <<>>, ended |-> <<>>]

\* ---- Request.send, "while True: self.seq += 1 ... if seq not in self.reply"
RECURSIVE next_seq(_, _)
next_seq(seq, reply) ==
    IF (seq + 1) \notin DOMAIN reply THEN seq + 1 ELSE next_seq(seq + 1, reply)

\* ---- Request.send, "if self.seq > 10 * (len(self.reply) + 5): self.seq = 9"
wrap_seq(r) ==
    IF r.seq > 10 * (Cardinality(DOMAIN r.reply) + 5) THEN 9 ELSE r.seq

\* new_seq without the test "seq not in self.reply"
new_seq_blind(r) == wrap_seq(r) + 1

\* ---- Request.send, "Find a small-ish but unique seqnum"
new_seq(r) == next_seq(wrap_seq(r), r.reply)

\* the messages of set s that carry id i and are not yet gone are marked g
MarkGone(s, i, g) ==
    {IF m.i = i /\ m.gone = "no"
        THEN [m EXCEPT !.gone = g] ELSE m : m \in s}

\* the number of calls under way plus that of the messages left by ended calls
Open(r) ==
    Cardinality(DOMAIN r.reply) + Cardinality({m \in r.wire \cup r.inbox : m.gone # "no"})

\* ---- Request.send up to "await self.parent.send(msg)": the id is chosen, the
\* waiter is registered and the message is handed to the layer below
ReqSend(c) ==
    /\ req.run = "run"
    /\ req.call[c].pc = "idle"
    /\ Open(req) < MaxOpen
    /\ LET id == new_seq(req)
       IN req' = [req EXCEPT !.seq = id,
                             !.reply = MapPut(@, id, Unset),
                             !.call[c] = [pc |-> "send", id |-> id,
                                          skip |-> id # wrap_seq(req) + 1],
                             !.wire = @ \cup {ReqMsg(id)}]
    /\ UNCHANGED <<lower, disp, side>>

\* ---- Request.send: parent.send returns, the call goes on to "await e.get()"
ParentSendDone(c) ==
    /\ req.call[c].pc = "send"
    /\ req' = [req EXCEPT !.call[c].pc = "wait"]
    /\ UNCHANGED <<lower, disp, side>>

\* the end of a send call, "finally: del self.reply[seq]"; what is still
\* under way for the call is marked g
EndCall(r, c, g) ==
    [r EXCEPT !.reply = MapPop(@, r.call[c].id),
              !.call[c] = [pc |-> "idle", id |-> 0, skip |-> FALSE],
              !.wire = MarkGone(@, r.call[c].id, g),
              !.inbox = MarkGone(@, r.call[c].id, g)]

\* ---- Request.send: parent.send raises because the link is gone
ParentSendFail(c) ==
    /\ req.run = "done"
    /\ req.call[c].pc = "send"
    /\ req.call[c].id \in DOMAIN req.reply
    /\ req' = EndCall(req, c, "old")
    /\ UNCHANGED <<lower, disp, side>>

\* ---- Request.send: "return await e.get()" once the waiter is completed
Return(c) ==
    /\ req.call[c].pc = "wait"
    /\ req.call[c].id \in DOMAIN req.reply
    /\ IsSet(req.reply[req.call[c].id])
    /\ req' = EndCall(req, c, "old")
    /\ UNCHANGED <<lower, disp, side>>

\* ---- Request.send: the calling task is cancelled while it waits
Cancel(c) ==
    /\ req.call[c].pc \in {"send", "wait"}
    /\ req.call[c].id \in DOMAIN req.reply
    /\ req' = EndCall(req, c, "late")
    /\ UNCHANGED <<lower, disp, side>>

\* the reply messages the peer can write for a request
Replies(m) == {[a |-> 0, i |-> m.i, d |-> d, e |-> e, gone |-> m.gone] : d \in 0..1, e \in 0..1}

\* the peer gets a request from the link and answers it.
\* keep: the link delivers the request a second time later on
Answer(m, rep, keep) ==
    /\ m \in req.wire
    /\ m.i # 0
    /\ rep \in Replies(m)
    /\ req' = [req EXCEPT !.wire = IF keep THEN @ ELSE @ \ {m}, !.inbox = @ \cup {rep}]
    /\ UNCHANGED <<lower, disp, side>>

\* ---- Request.dispatch, the reply branch ("a is None")
dispatch_reply_any(r, msg) ==
    IF msg.i = 0 THEN r
    ELSE IF msg.i \notin DOMAIN r.reply THEN r
    ELSE IF (IF msg.d = 0 THEN msg.e ELSE 0) = 0
         THEN [r EXCEPT !.reply[msg.i] = SetValue(msg.d)]
         ELSE [r EXCEPT !.reply[msg.i] = SetError]

dispatch_reply(r, msg) ==
    IF msg.i = 0 THEN r
    ELSE IF msg.i \notin DOMAIN r.reply THEN r
    ELSE IF IsSet(r.reply[msg.i]) THEN r
    ELSE IF (IF msg.d = 0 THEN msg.e ELSE 0) = 0
         THEN [r EXCEPT !.reply[msg.i] = SetValue(msg.d)]
         ELSE [r EXCEPT !.reply[msg.i] = SetError]

\* ---- Request.dispatch: a request is handed to a new task, a reply to its waiter
ReqDispatch(r, msg) ==
    IF msg.a # 0
    THEN [r EXCEPT !.tasks = Append(@, msg.i)]
    ELSE dispatch_reply(r, msg)

\* ---- Request.run, "msg = await self.parent.recv(); await self.dispatch(msg)".
\* keep: the link delivers the message a second time later on
Receive(m, keep) ==
    /\ req.run = "run"
    /\ m \in req.inbox
    /\ m.a # 0 => Len(req.tasks) < MaxTasks
    /\ req' = ReqDispatch([req EXCEPT !.inbox = IF keep THEN @ ELSE @ \ {m},
                                      !.wrote = <<>>, !.ended = <<>>], m)
    /\ UNCHANGED <<lower, disp, side>>

\* a cleanup that fails the waiters with ChannelClosed
cleanup_closed(reply, over) ==
    [i \in DOMAIN reply |->
        IF IsSet(reply[i]) /\ ~over THEN reply[i] ELSE SetClosed]

\* ---- Request._cleanup_open_commands.  What set_error does to a waiter that
\* is already completed is decided by ValueEvent: over says whether the
\* earlier outcome is replaced.
cleanup_open_commands(reply, over) ==
    [i \in DOMAIN reply |->
        IF IsSet(reply[i]) /\ ~over THEN reply[i] ELSE SetCancelled]

\* ---- Request.run is entered: the task group exists
ReqStart ==
    /\ req.run = "new"
    /\ req' = [req EXCEPT !.run = "run"]
    /\ UNCHANGED <<lower, disp, side>>

\* the run method ends without its finally clause
ReqRunEndBare(over) ==
    /\ req.run = "run"
    /\ req' = [req EXCEPT !.run = "done",
                          !.tasks = <<>>, !.wire = {}, !.inbox = {},
                          !.wrote = <<>>, !.ended = <<>>]
    /\ UNCHANGED <<lower, disp, side>>

\* ---- Request.run ends, by an error of parent.recv or by cancellation: the
\* task group cancels the handler tasks, the finally clause runs, the link is gone
RunEnd(r, over) ==
    [r EXCEPT !.run = "done",
              !.reply = cleanup_open_commands(@, over),
              !.tasks = <<>>, !.wire = {}, !.inbox = {}, !.wrote = <<>>, !.ended = <<>>]

ReqRunEnd(over) ==
    /\ req.run = "run"
    /\ req' = RunEnd(req, over)
    /\ UNCHANGED <<lower, disp, side>>

\* ---- the ways a handler ends: it returns None, a value, or a value that the
\* layer below cannot encode; it raises SilentRemoteError, an exception with a
\* proxy name, one without, or WouldBlock
HandlerEnds == {"none", "value", "badvalue", "silent", "exc", "anon", "block"}

Reply(i, d, e) == [a |-> 0, i |-> i, d |-> d, e |-> e, gone |-> "no"]

\* _handle_request without "if i is None: return"
handle_request_always(i, out) ==
    CASE out = "block" -> <<>>
      [] out = "none" -> <<Reply(i, 0, 0)>>
      [] out = "value" -> <<Reply(i, 1, 0)>>
      [] out = "badvalue" -> <<Reply(i, 0, 3)>>
      [] out = "anon" -> <<Reply(i, 0, 2)>>
      [] OTHER -> <<Reply(i, 0, 1)>>

\* ---- Request._handle_request: the messages handed to parent.send.  In a
\* reply e = 1 is an exception object, e = 2 the string "E:...", e = 3 the
\* string "T:..." sent after parent.send has refused the result.
handle_request(i, out) ==
    CASE out = "block" -> <<>>
      [] i = 0 -> <<>>
      [] out = "none" -> <<Reply(i, 0, 0)>>
      [] out = "value" -> <<Reply(i, 1, 0)>>
      [] out = "badvalue" -> <<Reply(i, 0, 3)>>
      [] out = "anon" -> <<Reply(i, 0, 2)>>
      [] OTHER -> <<Reply(i, 0, 1)>>

\* ---- the handler task of the k-th running request ends.  WouldBlock is
\* raised again and leaves the task, which ends the task group and run.
HandlerEnd(k, out) ==
    /\ req.run = "run"
    /\ k \in DOMAIN req.tasks
    /\ out \in HandlerEnds
    /\ \E over \in BOOLEAN :
          req' = [(IF out = "block" THEN RunEnd(req, over) ELSE req)
                    EXCEPT !.tasks = IF out = "block" THEN <<>> ELSE RemoveAt(@, k),
                           !.wrote = handle_request(req.tasks[k], out),
                           !.ended = <<[i |-> req.tasks[k], out |-> out]>>]
    /\ UNCHANGED <<lower, disp, side>>

\* the peer sends a request (i > 0) or a notification (i = 0)
Incoming(i) ==
    /\ req.run = "run"
    /\ i \in 0..MaxReqId
    /\ Cardinality(req.inbox) < MaxTasks
    /\ req' = [req EXCEPT !.inbox = @ \cup {[a |-> 1, i |-> i, d |-> 0, e |-> 0, gone |-> "in"]},
                          !.wrote = <<>>, !.ended = <<>>]
    /\ UNCHANGED <<lower, disp, side>>

\* ---- Request.send_nr
SendNr ==
    /\ req.run = "run"
    /\ req' = [req EXCEPT !.wire = @ \cup {ReqMsg(0)},
                          !.wrote = <<ReqMsg(0)>>, !.ended = <<>>]
    /\ UNCHANGED <<lower, disp, side>>

\* the peer gets a notification: it runs the handler and writes nothing
Notified(m) ==
    /\ m \in req.wire
    /\ m.i = 0
    /\ req' = [req EXCEPT !.wire = @ \ {m}, !.wrote = <<>>, !.ended = <<>>]
    /\ UNCHANGED <<lower, disp, side>>

\* Requests and notifications of the peer and their handlers.
NextHandle ==
    \/ ReqStart
    \/ \E i \in 0..MaxReqId : Incoming(i)
    \/ \E m \in req.inbox : \E keep \in BOOLEAN : Receive(m, keep)
    \/ \E k \in 1..MaxTasks : \E out \in HandlerEnds : HandlerEnd(k, out)
    \/ SendNr
    \/ \E m \in req.wire : Notified(m)
    \/ \E over \in BOOLEAN : ReqRunEnd(over)

\* Calls without end, so that the id counter wraps; the peer answers with a
\* result, the link delivers every message once.
NextRequest ==
    \/ ReqStart
    \/ \E c \in Callers : ReqSend(c)
    \/ \E c \in Callers : ParentSendDone(c)
    \/ \E c \in Callers : ParentSendFail(c)
    \/ \E c \in Callers : Return(c)
    \/ \E c \in Callers : Cancel(c)
    \/ \E m \in req.wire : \E rep \in Replies(m) : rep.d = 1 /\ rep.e = 0 /\ Answer(m, rep, FALSE)
    \/ \E m \in req.inbox : Receive(m, FALSE)
    \/ \E over \in BOOLEAN : ReqRunEnd(over)

\* A few calls; the peer answers with any reply, the link may deliver a
\* message more than once.
NextReply ==
    \/ ReqStart
    \/ \E c \in Callers : req.seq < MaxSeq /\ ReqSend(c)
    \/ \E c \in Callers : ParentSendDone(c)
    \/ \E c \in Callers : ParentSendFail(c)
    \/ \E c \in Callers : Return(c)
    \/ \E c \in Callers : Cancel(c)
    \/ \E m \in req.wire : \E rep \in Replies(m) : \E keep \in BOOLEAN : Answer(m, rep, keep)
    \/ \E m \in req.inbox : \E keep \in BOOLEAN : Receive(m, keep)
    \/ \E over \in BOOLEAN : ReqRunEnd(over)

\* ---------------------------------------------------------------------------
\* The dispatch tree: BaseCmd.dispatch and BaseSubCmd.dispatch
\* ---------------------------------------------------------------------------
\* An action is a string or a list, held as the sequence act of its characters
\* or elements, with str telling which it is.  A tree t gives each handler its
\* kind ("cmd" for a BaseCmd, "sub" for a BaseSubCmd), the names of its
\* commands (cmd_<name>, each name a sequence of characters, <<>> for the
\* default command cmd) and its sub-handlers (dis_<name> or self.sub).

Chars == {"a", "b", "c"}
Nodes == {"R", "A", "B"}

\* the msg argument of dispatch
Payload == <<"msg">>

Actions == UNION {[1..k -> Chars] : k \in 0..MaxAct}

\* the command names a handler may have
CmdSets ==
    {[n \in Nodes |-> IF n = "R" THEN r ELSE IF n = "A" THEN a ELSE b] :
        r \in SUBSET {<<>>, <<"a">>, <<"a", "b", "c">>},
        a \in SUBSET {<<"b">>, <<"b", "c">>},
        b \in SUBSET {<<>>, <<"c">>}}

\* the sub-handlers: A below the root R under "a", B below A under "b", or not
SubMaps ==
    {[n \in Nodes |-> IF n = "R" THEN r ELSE IF n = "A" THEN a ELSE EmptyMap] :
        r \in {EmptyMap, [j \in {"a"} |-> "A"]},
        a \in {EmptyMap, [j \in {"b"} |-> "B"]}}

\* the trees.  No class of the BaseSubCmd family has a default command.
Trees ==
    {t \in [kind : {k \in [Nodes -> {"cmd", "sub"}] : k["B"] = "cmd"},
            cmds : CmdSets, sub : SubMaps] :
        \A n \in Nodes : t.kind[n] = "sub" => <<>> \notin t.cmds[n]}

\* the outcome of a dispatch: command c of handler h was called with arg, or
\* the error e was raised and nothing was called
CalledWith(h, c, arg) == [st |-> "call", h |-> h, c |-> c, arg |-> arg, e |-> "none"]
Called(h, c) == CalledWith(h, c, Payload)
Failed(e) == [st |-> "err", h |-> "none", c |-> <<>>, arg |-> <<>>, e |-> e]

\* ---- BaseCmd.dispatch, "if not action: return await c(self.cmd)"
Default(t, n) ==
    IF <<>> \in t.cmds[n] THEN Called(n, <<>>) ELSE Failed("AttributeError")

\* no whole name is ever tried
WholeNameNever(t, n, str, A) == FALSE

\* ---- BaseCmd.dispatch, "isinstance(action, str) and len(action) > 1" and
\* cmd_<action> exists
WholeName(t, n, str, A) == str /\ Len(A) > 1 /\ A \in t.cmds[n]

\* without a sub-handler the command of the first name gets the rest
NoSubHandlerCmd(t, n, A) ==
    IF <<A[1]>> \in t.cmds[n] THEN CalledWith(n, <<A[1]>>, Tail(A))
    ELSE Failed("AttributeError")

\* ---- BaseCmd.dispatch, "raise AttributeError(action) from None"
NoSubHandler(t, n, A) == Failed("AttributeError")

\* a name without a command goes to the default command
SingleNameDefault(t, n, A) ==
    IF A \in t.cmds[n] THEN Called(n, A) ELSE Default(t, n)

\* ---- BaseCmd.dispatch, "return await c(getattr(self, "cmd_" + action[0]))"
SingleName(t, n, A) ==
    IF A \in t.cmds[n] THEN Called(n, A) ELSE Failed("AttributeError")

RECURSIVE Dispatch(_, _, _, _)

\* ---- BaseCmd.dispatch
BaseCmdDispatch(t, n, str, A) ==
    IF A = <<>> THEN Default(t, n)
    ELSE IF WholeName(t, n, str, A) THEN Called(n, A)
    ELSE IF Len(A) > 1
         THEN IF A[1] \in DOMAIN t.sub[n]
              THEN Dispatch(t, t.sub[n][A[1]], str, Tail(A))
              ELSE NoSubHandler(t, n, A)
    ELSE SingleName(t, n, A)

\* ---- the dispatch of the BaseCmd that the cmd package builds on, after the
\* routing rule of the dispatch tree: default command; whole name; the first
\* name as sub-handler, else as command that gets the rest; else an error
SuperDispatch(t, n, str, A) ==
    IF A = <<>> THEN Default(t, n)
    ELSE IF WholeName(t, n, str, A) THEN Called(n, A)
    ELSE IF A[1] \in DOMAIN t.sub[n] THEN Dispatch(t, t.sub[n][A[1]], str, Tail(A))
    ELSE IF <<A[1]>> \in t.cmds[n] THEN CalledWith(n, <<A[1]>>, Tail(A))
    ELSE Failed("NoSuchCommand")

\* ---- BaseSubCmd.dispatch
BaseSubCmdDispatch(t, n, str, A) ==
    IF A = <<>> THEN Failed("NoCmd")
    ELSE IF Len(A) = 1 THEN SuperDispatch(t, n, str, A)
    ELSE IF A[1] \in DOMAIN t.sub[n]
         THEN Dispatch(t, t.sub[n][A[1]], str, Tail(A))
         ELSE Failed("KeyError")

\* the dispatch method of handler n
Dispatch(t, n, str, A) ==
    IF t.kind[n] = "cmd" THEN BaseCmdDispatch(t, n, str, A)
    ELSE BaseSubCmdDispatch(t, n, str, A)

\* no dispatch is under way
NoCall == [pc |-> "none"]

\* a tree and an action are given
InitDispatch ==
    /\ ep = [e \in E |-> IF e = "a" THEN Construct(WindowA, TimeoutA, FALSE)
                                    ELSE Construct(WindowB, TimeoutB, FALSE)]
    /\ net = [e \in E |-> <<>>]
    /\ adv = 0
    /\ req = NewRequest
    /\ idle_side
    /\ disp \in {[pc |-> "new", t |-> t, str |-> str, act |-> A, res |-> Failed("none")] :
                    t \in Trees, str \in BOOLEAN, A \in Actions}

\* the root handler's dispatch is called
Call ==
    /\ disp.pc = "new"
    /\ disp' = [disp EXCEPT !.pc = "done",
                            !.res = Dispatch(disp.t, "R", disp.str, disp.act)]
    /\ UNCHANGED <<lower, req, side>>

NextDispatch == Call

SpecDispatch == InitDispatch /\ [][NextDispatch]_vars

\* ---------------------------------------------------------------------------
\* Initial state and the specifications of the reliable layer
\* ---------------------------------------------------------------------------
\* the reliable, request and dispatch models at rest
InitCore ==
    /\ ep = [e \in E |-> IF e = "a" THEN Construct(WindowA, TimeoutA, FALSE)
                                    ELSE Construct(WindowB, TimeoutB, FALSE)]
    /\ net = [e \in E |-> <<>>]
    /\ adv = 0
    /\ req = NewRequest
    /\ disp = NoCall

Init ==
    /\ ep = [e \in E |-> IF e = "a" THEN Construct(WindowA, TimeoutA, FALSE)
                                    ELSE Construct(WindowB, TimeoutB, FALSE)]
    /\ net = [e \in E |-> <<>>]
    /\ adv = 0
    /\ req = NewRequest
    /\ idle_side
    /\ disp = NoCall

Background(e) ==
    \/ BgSend(e)
    \/ BgExit(e)
    \/ \E k \in -1..(ep[e].window - 1) : BgTimeout(e, k)

\* ---- the endpoints are run, stopped and run again; "a" submits messages;
\*      the transport may lose frames and keeps their order
Next ==
    \E e \in E :
        \/ Start(e)
        \/ ResetTimer(e)
        \/ RunUp(e)
        \/ RunExit(e)
        \/ Background(e)
        \/ e = "a" /\ Send(e, MaxRunMsgs)
        \/ Deliver(e, 1, FALSE)
        \/ \E i \in 1..MaxNet : Lose(e, i)

Spec == Init /\ [][Next]_vars

\* ---- one session: both endpoints are run once and stay up; "a" submits
\*      messages, which the receive queue of "b" has room for; the transport may lose frames, deliver a frame more than
\*      once and, up to MaxAdv times, deliver a frame out of order
NextData ==
    \E e \in E :
        \/ ep[e].run = "new" /\ Start(e)
        \/ ResetTimer(e)
        \/ RunUp(e)
        \/ BgSend(e)
        \/ \E k \in -1..(ep[e].window - 1) : BgTimeout(e, k)
        \/ e = "a" /\ Send(e, MaxMsgs)
        \/ \E i \in 1..MaxNet, keep \in BOOLEAN : Deliver(e, i, keep)
        \/ \E i \in 1..MaxNet : Lose(e, i)

SpecData == Init /\ [][NextData]_vars


\* ---------------------------------------------------------------------------
\* Properties
\* ---------------------------------------------------------------------------

Submitted(e) == [i \in 1..Len(ep[e].evt) |-> i]

IsPrefix(p, q) == Len(p) <= Len(q) /\ \A i \in 1..Len(p) : p[i] = q[i]

InFlight(s) == (s.s_send_head - s.s_send_tail) % s.window

WindowFull(s) == InFlight(s) >= s.window \div 2

\* the step gives the first message of the pending-send queue a sequence number
Assigns(e) ==
    /\ ep[e].s_q # <<>>
    /\ ep'[e].s_q = Tail(ep[e].s_q)
    /\ ep[e].s_send_head \in DOMAIN ep'[e].m_send
    /\ ep'[e].m_send[ep[e].s_send_head] = Head(ep[e].s_q)
    /\ ep'[e].s_send_head = (ep[e].s_send_head + 1) % ep[e].window

\* C3: the in-flight distance (s_send_head - s_send_tail) mod window never
\* exceeds window/2; a queued message is given a sequence number only while
\* the distance is below window/2; while it is not, the background task leaves
\* the pending-send queue and its waiters as they are.
WindowSafety ==
    [][\A e \in E :
          /\ InFlight(ep[e]) <= ep[e].window \div 2
          /\ InFlight(ep'[e]) <= ep'[e].window \div 2
          /\ Assigns(e) => ~WindowFull(ep[e])
          /\ (WindowFull(ep[e]) /\ ep[e].s_q # <<>> /\ Background(e))
                => (ep'[e].s_q = ep[e].s_q /\ ep'[e].evt = ep[e].evt)]_vars

\* C3 witness: the window is full (window/2 messages in flight) and a
\* further message waits in the pending-send queue.
WindowSafetyWitness ==
    \E e \in E : /\ InFlight(ep[e]) = ep[e].window \div 2
                 /\ Cardinality(DOMAIN ep[e].m_send) = ep[e].window \div 2
                 /\ ep[e].s_q # <<>>
                 /\ ep[e].evt[Head(ep[e].s_q)] = "wait"

Range(f) == {f[k] : k \in DOMAIN f}

\* endpoint e holds or has delivered payload i
HasReceived(e, i) ==
    \/ i \in Range(ep[e].delivered)
    \/ i \in Range(ep[e].m_recv)
    \/ ep[e].put = i

Acknowledges(s, f, k) ==
    \/ (k - s.s_send_tail) % s.window < (f.r - s.s_send_tail) % s.window
    \/ k \in Range(f.x)

\* the step fulfils the waiter of the in-flight seq k of endpoint e
Fulfils(e, k) ==
    /\ k \in DOMAIN ep[e].m_send
    /\ ep[e].evt[ep[e].m_send[k]] = "wait"
    /\ ep'[e].evt[ep[e].m_send[k]] = "ok"

Emitted(e) == SubSeq(net'[Peer(e)], Len(net[Peer(e)]) + 1, Len(net'[Peer(e)]))

\* the step is the dispatch, by endpoint e, of the frame at position i
Dispatches(e, i) == \E keep \in BOOLEAN : Deliver(e, i, keep)

IsCtl(f, n) == f.a = "r" /\ f.n = n

IsData(f) == f.a = ""

WindowStateCleared(s) ==
    /\ s.s_send_head = 0 /\ s.s_send_tail = 0
    /\ s.s_recv_head = 0 /\ s.s_recv_tail = 0
    /\ s.s_q = <<>> /\ s.m_send = EmptyMap /\ s.m_recv = EmptyMap

ConfigAdopted(e, f) ==
    /\ ep'[e].timeout = Max(ep[e].timeout, f.t)
    /\ ep'[e].window = Min(ep[e].window, f.m)
    /\ ep'[e].window >= 4

\* C6: an endpoint that is not closed and receives control n=1 adopts the
\* peer's config (the larger timeout, the smaller window, at least 4) and
\* replies with n=2 carrying its own config; if it was up, its window state is
\* cleared and it is in reset again.
ResetRequestAnswered ==
    [][\A e \in E : \A i \in 1..Len(net[e]) :
          (Dispatches(e, i) /\ IsCtl(net[e][i], 1) /\ ~ep[e].closed) =>
              /\ ConfigAdopted(e, net[e][i])
              /\ Emitted(e) = <<CtlMsg(2, ep'[e].timeout, ep'[e].window)>>
              /\ InReset(ep'[e])
              /\ ~InReset(ep[e]) => WindowStateCleared(ep'[e])]_vars

\* C6 witness: an endpoint that is up with a message in flight is about to
\* dispatch n=1.
ResetRequestAnsweredWitness ==
    \E e \in E :
        /\ Len(net[e]) > 0 /\ IsCtl(net[e][1], 1)
        /\ ReaderIdle(e) /\ ~ep[e].closed /\ ~InReset(ep[e])
        /\ ep[e].m_send # EmptyMap

\* C7: an endpoint that is not closed and receives control n=2 adopts the
\* config, replies with n=3 and is up (in_reset cleared, is-up event set),
\* whatever its reset phase was.
ResetAckAnswered ==
    [][\A e \in E : \A i \in 1..Len(net[e]) :
          (Dispatches(e, i) /\ IsCtl(net[e][i], 2) /\ ~ep[e].closed) =>
              /\ ConfigAdopted(e, net[e][i])
              /\ Emitted(e) = <<CtlMsg(3, ep'[e].timeout, ep'[e].window)>>
              /\ ep'[e].in_reset = "False"
              /\ ep'[e].is_up
              /\ ~ep'[e].closed]_vars

\* C7 witness: n=2 is about to be dispatched by an endpoint in reset phase 1
\* whose config it changes; another run has it dispatched by an endpoint that
\* is up already.
ResetAckAnsweredWitness ==
    \E e \in E :
        /\ Len(net[e]) > 0 /\ IsCtl(net[e][1], 2)
        /\ ReaderIdle(e) /\ ~ep[e].closed
        /\ InReset(ep[e]) /\ ep[e].reset_level = 1
        /\ net[e][1].t > ep[e].timeout \/ net[e][1].m < ep[e].window


MarkedUp(e) == ep'[e].in_reset = "False" /\ ep'[e].is_up /\ ~ep'[e].closed

\* C8 as stated: an endpoint in reset, in whatever phase, that receives
\* control n=3 adopts the config and is up.
ResetAck2Completes ==
    [][\A e \in E : \A i \in 1..Len(net[e]) :
          (Dispatches(e, i) /\ IsCtl(net[e][i], 3) /\ ~ep[e].closed /\ InReset(ep[e])) =>
              (ConfigAdopted(e, net[e][i]) /\ MarkedUp(e))]_vars

\* C8 amended: an endpoint in reset phase 2 or later (reset_level > 1) that
\* receives control n=3 adopts the config, is up and sends nothing; in phase 1
\* it starts over instead: the window state is cleared, it stays in reset
\* phase 1 with its config unchanged and sends n=1.
ResetAck2CompletesLate ==
    [][\A e \in E : \A i \in 1..Len(net[e]) :
          (Dispatches(e, i) /\ IsCtl(net[e][i], 3) /\ ~ep[e].closed /\ InReset(ep[e])) =>
              IF ep[e].reset_level > 1
              THEN /\ ConfigAdopted(e, net[e][i])
                   /\ MarkedUp(e)
                   /\ Emitted(e) = <<>>
              ELSE /\ InReset(ep'[e]) /\ ep'[e].reset_level = 1
                   /\ ~ep'[e].closed
                   /\ WindowStateCleared(ep'[e])
                   /\ ep'[e].window = ep[e].window /\ ep'[e].timeout = ep[e].timeout
                   /\ Emitted(e) = <<CtlMsg(1, ep[e].timeout, ep[e].window)>>]_vars

\* C8 witness: an endpoint in reset phase 2 is about to dispatch n=3.
ResetAck2CompletesWitness ==
    \E e \in E :
        /\ Len(net[e]) > 0 /\ IsCtl(net[e][1], 3)
        /\ ReaderIdle(e) /\ ~ep[e].closed
        /\ InReset(ep[e]) /\ ep[e].reset_level = 2

ReceiveStateKept(e) ==
    /\ ep'[e].m_recv = ep[e].m_recv
    /\ ep'[e].s_recv_head = ep[e].s_recv_head
    /\ ep'[e].s_recv_tail = ep[e].s_recv_tail
    /\ ep'[e].rq = ep[e].rq
    /\ ep'[e].delivered = ep[e].delivered
    /\ ep'[e].put = ep[e].put

SendStateKept(e) ==
    /\ ep'[e].m_send = ep[e].m_send
    /\ ep'[e].s_send_head = ep[e].s_send_head
    /\ ep'[e].s_send_tail = ep[e].s_send_tail
    /\ ep'[e].s_q = ep[e].s_q
    /\ ep'[e].evt = ep[e].evt

\* C9 as stated: an endpoint in reset, in whatever phase, discards a data/ack
\* message: nothing is stored or delivered, no in-flight send is freed and the
\* endpoint stays in reset.
DataInResetDiscarded ==
    [][\A e \in E : \A i \in 1..Len(net[e]) :
          (Dispatches(e, i) /\ IsData(net[e][i]) /\ ~ep[e].closed /\ InReset(ep[e])) =>
              (ReceiveStateKept(e) /\ SendStateKept(e) /\ InReset(ep'[e]))]_vars

\* C10 as stated: a closed endpoint answers an incoming control message with
\* a reset request n=1.
ClosedAnswersReset ==
    [][\A e \in E : \A i \in 1..Len(net[e]) :
          (Dispatches(e, i) /\ net[e][i].a = "r" /\ ep[e].closed) =>
              (Len(Emitted(e)) <= 1 /\ \A j \in 1..Len(Emitted(e)) : IsCtl(Emitted(e)[j], 1))
      ]_vars

\* C10 amended: a closed endpoint stays closed and never sends n=1; it answers
\* every incoming control n=1..3 with n=0; an incoming n=0 or data/ack message
\* is answered, with n=0, only when the counter reset_level exceeds 2, which
\* sets the counter to 0, and otherwise adds one to the counter.
ClosedAnswersClosed ==
    [][\A e \in E : \A i \in 1..Len(net[e]) :
          (Dispatches(e, i) /\ ep[e].closed) =>
              /\ ep'[e].closed
              /\ IF net[e][i].a = "r" /\ net[e][i].n > 0
                 THEN /\ Emitted(e) = <<CtlMsg(0, 0, 0)>>
                      /\ ep'[e].reset_level = ep[e].reset_level
                 ELSE IF ep[e].reset_level > 2
                 THEN /\ Emitted(e) = <<CtlMsg(0, 0, 0)>>
                      /\ ep'[e].reset_level = 0
                 ELSE /\ Emitted(e) = <<>>
                      /\ ep'[e].reset_level = ep[e].reset_level + 1]_vars

\* C10 witness: a closed endpoint whose counter has reached 3 is about to
\* dispatch a message that is not a control n=1..3.
ClosedAnswersClosedWitness ==
    \E e \in E :
        /\ Len(net[e]) > 0 /\ ~(net[e][1].a = "r" /\ net[e][1].n > 0)
        /\ ReaderIdle(e) /\ ep[e].closed /\ ep[e].reset_level = 3

\* ---------------------------------------------------------------------------
\* Fair specifications
\* ---------------------------------------------------------------------------

\* no frame is in flight.  The retry timers are longer than the time a frame
\* takes: in the fair specifications a timer expires only when no frame is in
\* flight.
Quiescent == \A e \in E : net[e] = <<>>

LateResetTimer(e) == Quiescent /\ ResetTimer(e)

LateBgTimeout(e) == Quiescent /\ \E k \in -1..(ep[e].window - 1) : BgTimeout(e, k)

\* ---- one session under a fair lossy transport: both endpoints are run once
\*      and stay up; "a" submits MaxLiveMsgs messages; the transport may lose
\*      frames and, up to MaxAdv times, deliver a frame out of order, and it
\*      delivers a frame that is offered again and again
NextLive ==
    \E e \in E :
        \/ ep[e].run = "new" /\ Start(e)
        \/ LateResetTimer(e)
        \/ RunUp(e)
        \/ BgSend(e)
        \/ LateBgTimeout(e)
        \/ e = "a" /\ Send(e, MaxLiveMsgs)
        \/ \E i \in 1..MaxNet : Deliver(e, i, FALSE)
        \/ Lose(e, 1)

\* the tasks of a running endpoint are scheduled (the task group of run), its
\* timers expire, and the transport is fair
FairLive ==
    \A e \in E :
        /\ WF_vars(ep[e].run = "new" /\ Start(e))
        /\ WF_vars(LateResetTimer(e))
        /\ WF_vars(RunUp(e))
        /\ WF_vars(BgSend(e))
        /\ WF_vars(LateBgTimeout(e))
        /\ SF_vars(Deliver(e, 1, FALSE))

SpecLive == Init /\ [][NextLive]_vars /\ FairLive

Completed(i) ==
    /\ Len(ep["a"].evt) >= i
    /\ ep["a"].evt[i] = "ok"
    /\ i \in Range(ep["b"].delivered)

Running(e) == ep[e].run \in {"reset", "child"}

Drop(e) ==
    /\ ~Running(e)
    /\ Lose(e, 1)

NextReset ==
    \E e \in E :
        \/ Start(e)
        \/ LateResetTimer(e)
        \/ RunUp(e)
        \/ RunExit(e)
        \/ BgExit(e)
        \/ Deliver(e, 1, FALSE)
        \/ Drop(e)

FairReset ==
    \A e \in E :
        /\ WF_vars(LateResetTimer(e))
        /\ WF_vars(RunUp(e))
        /\ WF_vars(BgExit(e))
        /\ WF_vars(Deliver(e, 1, FALSE))
        /\ WF_vars(Drop(e))

SpecReset == Init /\ [][NextReset]_vars /\ FairReset

Settled(e) == ep[e].closed \/ (ep[e].is_up /\ ~InReset(ep[e]))

NoCtlInFlight == \A e \in E : \A j \in 1..Len(net[e]) : net[e][j].a # "r"

\* C5: when both endpoints keep running, the reset handshake comes to an
\* end: from some point on both endpoints are up or closed and no reset
\* control message is in flight any more.
ResetConverges ==
    <>[](\A e \in E : Running(e)) =>
        <>[](NoCtlInFlight /\ \A e \in E : Settled(e))


\* the step ends run of endpoint e (the finally clause has run)
RunEnds(e) == ep[e].run \in {"reset", "child"} /\ ep'[e].run = "done"

\* C11: when run exits, the endpoint is closed, the waiter of every entry of
\* m_send and of every message in the pending-send queue is completed, and no
\* send call of the endpoint stays blocked.
RunExitFailsWaiters ==
    [][\A e \in E : RunEnds(e) =>
          /\ ep'[e].closed
          /\ \A k \in DOMAIN ep[e].m_send : ep'[e].evt[ep[e].m_send[k]] # "wait"
          /\ \A j \in DOMAIN ep[e].s_q : ep'[e].evt[ep[e].s_q[j]] = "err"
          /\ \A i \in DOMAIN ep'[e].evt : ep'[e].evt[i] # "wait"]_vars


\* ---------------------------------------------------------------------------
\* The request layer on its own: callers, the peer's answers, teardown
\* ---------------------------------------------------------------------------
SpecRequest == Init /\ [][NextRequest]_vars

SpecReply == Init /\ [][NextReply]_vars

SpecHandle == Init /\ [][NextHandle]_vars

Pending(c) == req.call[c].pc # "idle"

\* the step is the id assignment of a send call of caller c
AssignsId(c) == req.call[c].pc = "idle" /\ req'.call[c].pc = "send"

\* C12: the ids of the pending requests are pairwise distinct and are the keys
\* of reply, and a send call never gets an id that is a key of reply at that
\* moment, also after the id counter has wrapped.
PendingIdsDistinct ==
    [][/\ \A c \in Callers : AssignsId(c) => req'.call[c].id \notin DOMAIN req.reply
       /\ \A c \in Callers : req'.call[c].pc # "idle" => req'.call[c].id \in DOMAIN req'.reply
       /\ \A c1, c2 \in Callers :
             (c1 # c2 /\ req'.call[c1].pc # "idle" /\ req'.call[c2].pc # "idle")
                => req'.call[c1].id # req'.call[c2].id]_vars

\* C12 witness: after a wrap of the counter a call got its id by skipping the id of
\* another pending call
PendingIdsDistinctWitness ==
    \E c1, c2 \in Callers :
        /\ Pending(c1) /\ Pending(c2) /\ req.call[c2].skip
        /\ req.call[c2].id = req.call[c1].id + 1

\* what a waiter may hold after the reply m has completed it
Outcomes(m) ==
    IF m.e = 0 THEN {SetValue(m.d)}
    ELSE IF m.d = 0 THEN {SetError}
    ELSE {SetValue(m.d), SetError}

\* the step is one of the receive loop: no send call starts or ends, run goes on
LoopStep == req'.call = req.call /\ req'.run = req.run

\* C13: a reply (no action, id i) completes exactly the waiter registered under
\* i, with d or with e; the reply map keeps its keys, a completed waiter is
\* never changed, and a reply whose id is not registered changes nothing.
ReplyCompletesWaiter ==
    [][LoopStep =>
         /\ DOMAIN req'.reply = DOMAIN req.reply
         /\ \A i \in DOMAIN req.reply :
               req'.reply[i] # req.reply[i] =>
                  /\ ~IsSet(req.reply[i])
                  /\ \E m \in req.inbox : m.a = 0 /\ m.i = i /\ req'.reply[i] \in Outcomes(m)
                  /\ \A j \in DOMAIN req.reply \ {i} : req'.reply[j] = req.reply[j]
         /\ \A m \in req.inbox \ req'.inbox :
               (m.a = 0 /\ m.i \in DOMAIN req.reply /\ ~IsSet(req.reply[m.i]))
                  => req'.reply[m.i] \in Outcomes(m)]_vars

\* C13 witness: a waiter has been completed by a reply, and another reply with the same id
\* and another content is still to be dispatched
ReplyCompletesWaiterWitness ==
    \E c \in Callers : \E m \in req.inbox :
        /\ req.call[c].pc = "wait" /\ req.run = "run"
        /\ m.a = 0 /\ m.gone = "no" /\ m.i = req.call[c].id
        /\ IsSet(req.reply[m.i]) /\ req.reply[m.i] \notin Outcomes(m)

\* the step cancels the send call of caller c while it awaits its reply
Cancels(c) ==
    /\ req.call[c].pc = "wait" /\ req'.call[c].pc = "idle"
    /\ req.call[c].id \in DOMAIN req.reply /\ ~IsSet(req.reply[req.call[c].id])

\* C14: cancelling a send call that awaits its reply removes its id from the
\* reply map, and when a reply for a cancelled call is dispatched later it
\* changes no waiter, whatever request is registered at that time.
LateReplyDropped ==
    [][/\ \A c \in Callers : Cancels(c) => req.call[c].id \notin DOMAIN req'.reply
       /\ \A m \in req.inbox \ req'.inbox :
             (LoopStep /\ m.a = 0 /\ m.gone = "late") => req'.reply = req.reply]_vars

\* the request of caller c is in flight: sent, its reply not yet received
ReqInFlight(c) ==
    /\ req.call[c].pc = "wait"
    /\ req.call[c].id \in DOMAIN req.reply /\ ~IsSet(req.reply[req.call[c].id])

\* the step is the end of Request.run
RunEndStep == req.run = "run" /\ req'.run = "done"

\* C15 as stated: when the link tears down, the send call of every request in
\* flight fails with the "channel closed" error.
InFlightFailsClosed ==
    [][\A c \in Callers : (RunEndStep /\ ReqInFlight(c))
          => req'.reply[req.call[c].id] = SetClosed]_vars

\* C15 amended: when the link tears down, the waiter of every request in
\* flight is failed with the cancellation error, and it keeps that outcome
\* until its send call has taken it.
InFlightFailsCancelled ==
    [][/\ \A c \in Callers : (RunEndStep /\ ReqInFlight(c))
             => req'.reply[req.call[c].id] = SetCancelled
       /\ req.run = "done" =>
             \A i \in DOMAIN req'.reply : i \in DOMAIN req.reply /\ req'.reply[i] = req.reply[i]]_vars

\* C15 witness: the link is gone and a send call that had sent its request is about to
\* fail with the cancellation error
InFlightFailsCancelledWitness ==
    \E c \in Callers :
        /\ req.run = "done" /\ req.call[c].pc = "wait"
        /\ req.reply[req.call[c].id] = SetCancelled

\* C16: when Request.run ends, every waiter of the reply map that is not yet
\* completed is failed with the cancellation error, and afterwards no waiter
\* is left uncompleted, so that no send call stays blocked on its waiter.
RunEndCancelsWaiters ==
    [][/\ RunEndStep =>
             /\ DOMAIN req'.reply = DOMAIN req.reply
             /\ \A i \in DOMAIN req.reply :
                   ~IsSet(req.reply[i]) => req'.reply[i] = SetCancelled
       /\ req'.run = "done" => \A i \in DOMAIN req'.reply : IsSet(req'.reply[i])]_vars

\* C16 witness: run has ended while every caller had a call under way, and all their
\* waiters are failed with the cancellation error
RunEndCancelsWaitersWitness ==
    /\ req.run = "done"
    /\ \A c \in Callers : Pending(c) /\ req.reply[req.call[c].id] = SetCancelled
    /\ \E c \in Callers : req.call[c].pc = "send"

Returns == {"none", "value", "badvalue"}
Raises == HandlerEnds \ Returns

\* the result a handler that ended with out has returned (0 is None, 2 a value
\* that cannot be encoded)
Result(out) == CASE out = "none" -> 0 [] out = "value" -> 1 [] OTHER -> 2

\* no reply is written by a step that ends no handler task
OnlyHandlersReply ==
    req.ended = <<>> => \A j \in DOMAIN req.wrote : req.wrote[j].a # 0

\* C17 as stated: a handler task that ends for a request with id i has written
\* exactly one reply, {i, d: result} if the handler returned and {i, e: error}
\* if it raised; for a notification nothing is written.
HandlerWritesOneReply ==
    /\ OnlyHandlersReply
    /\ \A j \in DOMAIN req.ended :
          LET i == req.ended[j].i
              out == req.ended[j].out
          IN IF i = 0 THEN req.wrote = <<>>
             ELSE /\ Len(req.wrote) = 1
                  /\ req.wrote[1].a = 0 /\ req.wrote[1].i = i
                  /\ out \in Returns => req.wrote[1].d = Result(out) /\ req.wrote[1].e = 0
                  /\ out \in Raises => req.wrote[1].e # 0 /\ req.wrote[1].d = 0

\* C17 amended: as stated, but a result that the layer below refuses with a
\* TypeError is answered by the one reply {i, e: "T:..."}, and a handler that
\* raises WouldBlock gets no reply: the error ends run.
HandlerWritesOneReplyOrNone ==
    /\ OnlyHandlersReply
    /\ \A j \in DOMAIN req.ended :
          LET i == req.ended[j].i
              out == req.ended[j].out
          IN IF i = 0 THEN req.wrote = <<>>
             ELSE IF out = "block" THEN req.wrote = <<>> /\ req.run = "done"
             ELSE /\ Len(req.wrote) = 1
                  /\ req.wrote[1].a = 0 /\ req.wrote[1].i = i
                  /\ out \in {"none", "value"} =>
                        req.wrote[1].d = Result(out) /\ req.wrote[1].e = 0
                  /\ out = "badvalue" => req.wrote[1].e = 3 /\ req.wrote[1].d = 0
                  /\ out \in Raises => req.wrote[1].e \in {1, 2} /\ req.wrote[1].d = 0

\* C17 witness: the handler of a request with an id has raised and its one reply is
\* written, while the handler of another request is still running
HandlerWritesOneReplyWitness ==
    /\ Len(req.ended) = 1 /\ req.ended[1].i # 0 /\ req.ended[1].out = "exc"
    /\ Len(req.wrote) = 1 /\ req.wrote[1].i = req.ended[1].i
    /\ Len(req.tasks) > 0

\* the dispatch has been made
Dispatched == disp.pc = "done"

abc == <<"a", "b", "c">>

\* the tree a -> b -> cmd_c below a root that is a BaseCmd: A is the root's
\* sub-handler a, B is A's sub-handler b, B has the command c, and A has no
\* command of its own for "bc"
TreeABC ==
    /\ disp.t.kind["R"] = "cmd"
    /\ disp.t.sub["R"] = [j \in {"a"} |-> "A"]
    /\ disp.t.sub["A"] = [j \in {"b"} |-> "B"]
    /\ <<"c">> \in disp.t.cmds["B"]
    /\ <<"b", "c">> \notin disp.t.cmds["A"]

\* C18: in the tree a -> b -> cmd_c the string "abc" calls the root's cmd_abc
\* if there is one and otherwise cmd_c of handler b, and the list
\* ["a","b","c"] calls cmd_c of handler b whether or not cmd_abc exists.
WholeNameThenWalk ==
    (Dispatched /\ TreeABC /\ disp.act = abc) =>
        IF disp.str /\ abc \in disp.t.cmds["R"]
        THEN disp.res = Called("R", abc)
        ELSE disp.res = Called("B", <<"c">>)

\* C18 witness: the string "abc" was dispatched in a tree whose root has cmd_abc, and that
\* command was called
WholeNameThenWalkWitness ==
    /\ Dispatched /\ TreeABC /\ disp.act = abc /\ disp.str
    /\ abc \in disp.t.cmds["R"] /\ disp.res = Called("R", abc)

\* the action has two or more elements and the root, a BaseCmd, has no
\* command of the whole name
LongNoWholeName ==
    /\ Dispatched /\ Len(disp.act) >= 2 /\ disp.t.kind["R"] = "cmd"
    /\ ~(disp.str /\ disp.act \in disp.t.cmds["R"])

\* the root's sub-handler under the first element was asked for the rest
Recursed ==
    /\ disp.act[1] \in DOMAIN disp.t.sub["R"]
    /\ disp.res = Dispatch(disp.t, disp.t.sub["R"][disp.act[1]], disp.str, Tail(disp.act))

OutcomeAt(n) ==
    IF n = "R" THEN disp.res ELSE Dispatch(disp.t, n, disp.str, disp.act)

\* the action matches no command and no sub-handler of handler n (a BaseSubCmd
\* hands an action of one element to its base class)
NoMatch(n) ==
    /\ disp.act # <<>>
    /\ disp.t.kind[n] = "cmd" \/ Len(disp.act) >= 2
    /\ ~(disp.str /\ disp.act \in disp.t.cmds[n])
    /\ disp.act[1] \notin DOMAIN disp.t.sub[n]
    /\ <<disp.act[1]>> \notin disp.t.cmds[n]

after_error_keep(r) == r

\* ---- Err.run_app, "if r > 0: r -= 1"
after_error(r) == IF r > 0 THEN r - 1 ELSE r

InitWrap ==
    /\ InitCore /\ idle_but_wrap
    /\ wrap \in {[pc |-> "new", retry |-> n, timeout |-> t, r |-> 0, runs |-> 0,
                  fails |-> 0, sleeps |-> 0, slept |-> 0, why |-> "none"] :
                    n \in -1..MaxRetry, t \in 1..MaxDelay}

\* ---- Err.run_app up to the first "await super().run_app()"
ErrStart ==
    /\ wrap.pc = "new"
    /\ wrap' = [wrap EXCEPT !.pc = "run", !.r = wrap.retry, !.runs = 1]
    /\ UNCHANGED but_wrap

\* ---- the child's run returns: "else: ... return"
ChildReturns ==
    /\ wrap.pc = "run"
    /\ wrap' = [wrap EXCEPT !.pc = "done"]
    /\ UNCHANGED but_wrap

\* ---- the child's run raises an Exception: "if not r: raise err", else the
\* count goes down and the wrapper sleeps
ChildRaises ==
    /\ wrap.pc = "run"
    /\ wrap' = IF wrap.r = 0
               THEN [wrap EXCEPT !.pc = "raised", !.why = "exc", !.fails = @ + 1]
               ELSE [wrap EXCEPT !.pc = "sleep", !.r = after_error(@), !.fails = @ + 1]
    /\ UNCHANGED but_wrap

\* ---- "await sleep_ms(t)" is over and the loop runs the child again
SleepDone ==
    /\ wrap.pc = "sleep"
    /\ wrap.runs < MaxChildRuns
    /\ wrap' = [wrap EXCEPT !.pc = "run", !.runs = @ + 1, !.sleeps = @ + 1,
                            !.slept = @ + wrap.timeout]
    /\ UNCHANGED but_wrap

\* ---- the task is cancelled: CancelledError is no Exception and leaves run_app
WrapCancelled ==
    /\ wrap.pc \in {"run", "sleep"}
    /\ wrap' = [wrap EXCEPT !.pc = "raised", !.why = "cancel"]
    /\ UNCHANGED but_wrap

NextWrap == ErrStart \/ ChildReturns \/ ChildRaises \/ SleepDone \/ WrapCancelled

SpecWrap == InitWrap /\ [][NextWrap]_vars

\* C21: with retry = N >= 0 the child is restarted at most N times and each
\* restart comes after one sleep of the configured delay; the exception of the
\* (N+1)-th failed run leaves run_app, and no earlier one does; after a run
\* that ended without exception, and after giving up, nothing is run again.
RetryAtMostN ==
    /\ [](wrap.retry >= 0 =>
            /\ wrap.runs <= wrap.retry + 1
            /\ wrap.fails <= wrap.retry + 1
            /\ wrap.pc = "run" => wrap.sleeps = wrap.runs - 1
            /\ wrap.slept = wrap.sleeps * wrap.timeout
            /\ wrap.fails = wrap.retry + 1 => (wrap.pc = "raised" /\ wrap.why = "exc")
            /\ (wrap.pc = "raised" /\ wrap.why = "exc") => wrap.fails = wrap.retry + 1)
    /\ [][wrap.pc \in {"done", "raised"} => wrap' = wrap]_vars

\* C21 witness: a wrapper with retry = 2 has given up after the third failed
\* run, having slept twice
RetryAtMostNWitness ==
    /\ wrap.retry = 2 /\ wrap.pc = "raised" /\ wrap.why = "exc"
    /\ wrap.fails = 3 /\ wrap.sleeps = 2

\* ---------------------------------------------------------------------------
\* Reconciling the sub-handlers with the configuration:
\* DirCmd._setup_apps (with BaseSubCmd.attach/detach and
\* BaseSuperCmd.start_app) and Request._setup_apps
\* ---------------------------------------------------------------------------
\* apps.kind tells which of the two holds the handlers.  apps.names is the set
\* of names under "apps" in the configuration of the last pass.  apps.sub maps
\* each name to the state of its handler: "absent" (no handler attached),
\* "running" (attached, its task runs), "ended" (attached, its task has
\* returned: p_task is None; in Request the handler keeps its _req_scope).
\* apps.act tells what the last pass did to the handler of each name.
AppNames == {"x", "y", "z"}

NoApps == [n \in AppNames |-> "absent"]

\* a handler that is there is started anew, whatever its task does
start_app_anew(st) == <<"running", "started">>

\* ---- BaseSuperCmd.start_app: a handler with a task is told to reload, one
\* without is spawned
start_app(st) ==
    IF st = "running" THEN <<"running", "notified">> ELSE <<"running", "started">>

\* ---- Request._setup_apps, third loop: a handler that has a _req_scope gets
\* config_updated, a new one is spawned
req_start(st) ==
    IF st = "absent" THEN <<"running", "started">> ELSE <<st, "notified">>

\* ---- BaseSubCmd.detach: the handler leaves the table and is stopped
detach(st) == <<"absent", IF st = "absent" THEN "none" ELSE "stopped">>

\* ---- DirCmd._setup_apps, as the pair <<state, what was done>> per name
dir_setup_apps(sub, names) ==
    [n \in AppNames |->
        IF n \notin names THEN detach(sub[n]) ELSE start_app(sub[n])]

\* ---- Request._setup_apps
req_setup_apps(sub, names) ==
    [n \in AppNames |->
        IF n \notin names THEN detach(sub[n]) ELSE req_start(sub[n])]

InitApps ==
    /\ InitCore /\ idle_but_apps
    /\ apps \in {[pc |-> "apps", kind |-> k, names |-> {}, sub |-> NoApps,
                  act |-> [n \in AppNames |-> "none"], pass |-> 0] :
                    k \in {"dir", "req"}}

\* ---- one pass of _setup_apps over a configuration that lists names
Reconcile(names) ==
    /\ apps.pass < MaxPasses
    /\ LET res == IF apps.kind = "dir" THEN dir_setup_apps(apps.sub, names)
                                       ELSE req_setup_apps(apps.sub, names)
       IN  apps' = [apps EXCEPT !.names = names, !.pass = @ + 1,
                                !.sub = [n \in AppNames |-> res[n][1]],
                                !.act = [n \in AppNames |-> res[n][2]]]
    /\ UNCHANGED but_apps

\* ---- the task of a handler returns (_run: "finally: app.p_task = None")
AppEnds(n) ==
    /\ apps.sub[n] = "running"
    /\ apps' = [apps EXCEPT !.sub[n] = "ended"]
    /\ UNCHANGED but_apps

NextApps ==
    \/ \E names \in SUBSET AppNames : Reconcile(names)
    \/ \E n \in AppNames : AppEnds(n)

SpecApps == InitApps /\ [][NextApps]_vars

Attached(a) == {n \in AppNames : a.sub[n] # "absent"}

PassStep == apps'.pass = apps.pass + 1

\* what a pass does to the names that leave and to the names that come
PassSetsRight ==
    /\ Attached(apps') = apps'.names
    /\ \A n \in Attached(apps) \ apps'.names : apps'.act[n] = "stopped"
    /\ \A n \in apps'.names \ Attached(apps) :
            apps'.sub[n] = "running" /\ apps'.act[n] = "started"

\* C22 as stated: after a pass the attached handlers are those listed; the
\* handlers no longer listed were detached and stopped, the newly listed ones
\* constructed, attached and started, and every surviving handler was notified
\* and not started again.
SurvivorsNotified ==
    [][PassStep =>
        /\ PassSetsRight
        /\ \A n \in Attached(apps) \cap apps'.names :
                apps'.act[n] = "notified" /\ apps'.sub[n] = apps.sub[n]]_vars

\* C22 amended: the same, with the notification limited to the surviving
\* handlers whose task still runs; these keep running and are not started again.
RunningSurvivorsNotified ==
    [][PassStep =>
        /\ PassSetsRight
        /\ \A n \in Attached(apps) \cap apps'.names :
                apps.sub[n] = "running" =>
                    apps'.act[n] = "notified" /\ apps'.sub[n] = "running"]_vars

\* C22 witness: a pass of DirCmd has stopped one handler, started a new one
\* and notified a running survivor
RunningSurvivorsNotifiedWitness ==
    /\ apps.pc = "apps" /\ apps.kind = "dir" /\ apps.pass = 2
    /\ apps.act["x"] = "stopped" /\ apps.act["y"] = "started"
    /\ apps.act["z"] = "notified" /\ apps.sub["z"] = "running"

\* ---------------------------------------------------------------------------
\* The write side of the framed streams: MsgpackStream.send and
\* SerialPackerStream.send
\* ---------------------------------------------------------------------------
\* strm.kind is the framing: "prefix" (MsgpackStream with a msg_prefix),
\* "plain" (MsgpackStream without), "packet" (SerialPackerStream).  strm.lock
\* is the holder of w_lock, or "free".  strm.snd[s] is the position of sender
\* s in send: "idle", "lock" (waits for w_lock) or "write", and strm.at[s] the
\* number of the write it does next; strm.frame[s] numbers the frame it sends.  strm.wire is what the
\* transport got, one entry <<frame, part>> per write.
Senders == {"s1", "s2", "s3"}

\* ---- the writes of one send, in order
Parts(kind) ==
    CASE kind = "prefix" -> <<"sentinel", "payload">>
      [] kind = "plain"  -> <<"payload">>
      [] kind = "packet" -> <<"header", "body", "trailer">>

\* the lock is given to whoever asks
lock_any(l) == TRUE

\* ---- Lock: one holder at a time
lock_free(l) == l = "free"

InitStream ==
    /\ InitCore /\ idle_but_strm
    /\ strm \in {[pc |-> "send", kind |-> k, lock |-> "free",
                  snd |-> [s \in Senders |-> "idle"],
                  at |-> [s \in Senders |-> 0],
                  frame |-> [s \in Senders |-> 0],
                  frames |-> 0, wire |-> <<>>] :
                    k \in {"prefix", "plain", "packet"}}

\* ---- send is called: the message is packed (framed) and the sender goes for
\* the lock
SendCall(s) ==
    /\ strm.snd[s] = "idle"
    /\ strm.frames < MaxFrames
    /\ strm' = [strm EXCEPT !.snd[s] = "lock", !.frames = @ + 1,
                            !.frame[s] = strm.frames + 1]
    /\ UNCHANGED but_strm

\* ---- "async with self.w_lock:" is entered
Acquire(s) ==
    /\ strm.snd[s] = "lock"
    /\ lock_free(strm.lock)
    /\ strm' = [strm EXCEPT !.lock = s, !.snd[s] = "write", !.at[s] = 1]
    /\ UNCHANGED but_strm

\* ---- one "await ... send(...)" inside the lock; after the last one the
\* lock is released and send returns
Write(s) ==
    /\ strm.snd[s] = "write"
    /\ LET k == strm.at[s]
           last == k = Len(Parts(strm.kind))
       IN  strm' = [strm EXCEPT
                !.wire = Append(@, <<strm.frame[s], Parts(strm.kind)[k]>>),
                !.snd[s] = IF last THEN "idle" ELSE @,
                !.at[s] = IF last THEN 0 ELSE k + 1,
                !.lock = IF last /\ strm.lock = s THEN "free" ELSE @]
    /\ UNCHANGED but_strm

\* ---- the sender is cancelled while it waits for the lock or for a write:
\* the "async with" releases the lock if it was held
SendCancelled(s) ==
    /\ strm.snd[s] # "idle"
    /\ strm' = [strm EXCEPT !.snd[s] = "idle", !.at[s] = 0,
                            !.lock = IF strm.lock = s THEN "free" ELSE @]
    /\ UNCHANGED but_strm

NextStream ==
    \/ \E s \in Senders : SendCall(s)
    \/ \E s \in Senders : Acquire(s)
    \/ \E s \in Senders : Write(s)
    \/ \E s \in Senders : SendCancelled(s)

SpecStream == InitStream /\ [][NextStream]_vars

\* C23: the writes of one frame are contiguous on the transport, in the order
\* of the frame's parts: between two writes of a frame there is no write of
\* another frame.
FramesContiguous ==
    \A i, j \in 1..Len(strm.wire) :
        (i < j /\ strm.wire[i][1] = strm.wire[j][1]) =>
            /\ \A k \in i..j : strm.wire[k][1] = strm.wire[i][1]
            /\ \E p, q \in 1..Len(Parts(strm.kind)) :
                /\ q - p = j - i
                /\ Parts(strm.kind)[p] = strm.wire[i][2]
                /\ Parts(strm.kind)[q] = strm.wire[j][2]

\* C23 witness: three senders were inside send at the same time on a packet
\* stream and each of the three frames is on the transport in full
FramesContiguousWitness ==
    /\ strm.pc = "send" /\ strm.kind = "packet"
    /\ Len(strm.wire) = 9
    /\ \A s \in Senders : strm.frame[s] # 0
    /\ strm.wire[1][1] = 3

\* ---------------------------------------------------------------------------
\* The read side of the prefix-framed stream: MsgpackStream.recv with a
\* msg_prefix
\* ---------------------------------------------------------------------------
\* Bytes are numbers.  Sentinel is the msg_prefix.  A message is a byte string
\* of up to MaxBody bytes, packed as a header byte that carries the length and
\* then the bytes themselves (msgpack's bin/str/array formats have this
\* shape); its bytes may have any value, that of the sentinel included.
Sentinel == 9

\* the header bytes start here
HdrBase == 16

ConsoleBytes == {0, 1}

BodyBytes == {0, Sentinel}

\* byte strings of length up to n over S
RECURSIVE Strings(_, _)
Strings(S, n) ==
    IF n = 0 THEN {<<>>}
    ELSE LET T == Strings(S, n - 1)
         IN  T \cup {Append(t, b) : t \in T, b \in S}

\* ---- Packer.pack
pack(v) == <<HdrBase + Len(v)>> \o v

\* what may arrive: a console byte, or a message behind the sentinel
Items ==
    {[kind |-> "console", byte |-> b, msg |-> <<>>] : b \in ConsoleBytes}
    \cup {[kind |-> "msg", byte |-> 0, msg |-> v] : v \in Strings(BodyBytes, MaxBody)}

\* the bytes of a sequence of items
RECURSIVE Wire(_)
Wire(items) ==
    IF items = <<>> THEN <<>>
    ELSE (IF Head(items).kind = "console" THEN <<Head(items).byte>>
          ELSE <<Sentinel>> \o pack(Head(items).msg)) \o Wire(Tail(items))

RECURSIVE MsgsOf(_)
MsgsOf(items) ==
    IF items = <<>> THEN <<>>
    ELSE (IF Head(items).kind = "msg" THEN <<Head(items).msg>> ELSE <<>>)
         \o MsgsOf(Tail(items))

RECURSIVE ConsoleOf(_)
ConsoleOf(items) ==
    IF items = <<>> THEN <<>>
    ELSE (IF Head(items).kind = "console" THEN <<Head(items).byte>> ELSE <<>>)
         \o ConsoleOf(Tail(items))

\* every byte starts a message
starts_any(b, prefix) == TRUE

\* ---- MsgpackStream.recv: "if b == self.msg_prefix"
starts_message(b, prefix) == b = prefix

\* rd.items is what was sent, rd.inp the bytes not yet read.  rd.at is the
\* position of the reader: "idle" (no recv is running), "hunt" (recv reads a
\* byte and looks at it), "value" (unpack reads the header), "body" (unpack
\* reads rd.need more bytes into rd.acc).  rd.out are the values recv has
\* returned, rd.console the bytes given to the console handler; rd.handler
\* tells whether there is one.
InitRead ==
    /\ InitCore /\ idle_but_rd
    /\ rd \in {[pc |-> "read", items |-> it, inp |-> Wire(it), at |-> "idle",
                need |-> 0, acc |-> <<>>, out |-> <<>>, console |-> <<>>,
                handler |-> h] :
                    it \in UNION {[1..n -> Items] : n \in 0..MaxItems},
                    h \in BOOLEAN}

\* ---- recv is called
RecvCall ==
    /\ rd.at = "idle"
    /\ rd' = [rd EXCEPT !.at = "hunt"]
    /\ UNCHANGED but_rd

\* ---- "b = (await super().recv(1))[0]" and what follows up to the next read
Hunt ==
    /\ rd.at = "hunt"
    /\ rd.inp # <<>>
    /\ LET b == Head(rd.inp)
       IN  rd' = IF starts_message(b, Sentinel)
                 THEN [rd EXCEPT !.inp = Tail(@), !.at = "value"]
                 ELSE [rd EXCEPT !.inp = Tail(@),
                                 !.console = IF rd.handler THEN Append(@, b) ELSE @]
    /\ UNCHANGED but_rd

\* ---- "res = await self.unpack(); return res": unpack reads one byte at a
\* time (read_size = 1): first the header, then as many bytes as it says
Unpack ==
    /\ rd.at \in {"value", "body"}
    /\ rd.inp # <<>>
    /\ LET b == Head(rd.inp)
           need == IF rd.at = "value" THEN b - HdrBase ELSE rd.need - 1
           acc == IF rd.at = "value" THEN <<>> ELSE Append(rd.acc, b)
       IN  rd' = IF need <= 0
                 THEN [rd EXCEPT !.inp = Tail(@), !.at = "idle", !.need = 0,
                                 !.acc = <<>>, !.out = Append(@, acc)]
                 ELSE [rd EXCEPT !.inp = Tail(@), !.at = "body", !.need = need,
                                 !.acc = acc]
    /\ UNCHANGED but_rd

NextRead == RecvCall \/ Hunt \/ Unpack

SpecRead == InitRead /\ [][NextRead]_vars

\* C24: recv returns the messages that came behind a sentinel, in the order
\* of arrival, and nothing else; the bytes outside the messages go to the
\* console handler in the order of arrival; once all input is read, all
\* messages have been returned and all console bytes handed over.
RecvSplitsInput ==
    /\ IsPrefix(rd.out, MsgsOf(rd.items))
    /\ rd.handler => IsPrefix(rd.console, ConsoleOf(rd.items))
    /\ (rd.inp = <<>> /\ rd.at \in {"idle", "hunt"}) =>
            /\ rd.out = MsgsOf(rd.items)
            /\ rd.handler => rd.console = ConsoleOf(rd.items)

\* C24 witness: a message whose body holds the sentinel's value, a console
\* byte and a second message have been read to the end
RecvSplitsInputWitness ==
    /\ rd.pc = "read" /\ rd.handler /\ rd.inp = <<>>
    /\ rd.out = << <<Sentinel, 0>>, <<0>> >>
    /\ rd.console = <<1>>
    /\ Len(rd.items) = 3 /\ rd.items[2].kind = "console"

\* ---------------------------------------------------------------------------
\* The proxy codec: _encode and _decode of proto/stream.py, over the proxy
\* tables of the two sides
\* ---------------------------------------------------------------------------
\* A value is an object of the side that holds it, [k |-> "obj", id |-> ..],
\* or a placeholder that carries a name, [k |-> "proxy", id |-> name].  A
\* proxy table is a set of pairs <<name, value>>, one value per name and one
\* name per value.  What travels is [tag |-> 4, name |-> ..].
PNames == {"b", "c"}

AutoNames == <<"_1", "_2", "_3", "_4">>

ObjA == {[k |-> "obj", id |-> i] : i \in {"a1", "a2"}}

ObjB == {[k |-> "obj", id |-> i] : i \in {"b1"}}

Placeholder(n) == [k |-> "proxy", id |-> n]

\* the tables over the names N and the values O
Tables(N, O) ==
    {t \in SUBSET (N \X O) :
        \A p, q \in t : (p[1] = q[1] \/ p[2] = q[2]) => p = q}

Knows(t, n) == \E p \in t : p[1] = n

Named(t, v) == \E p \in t : p[2] = v

\* ---- moat.util.name2obj / obj2name
name2obj(t, n) == (CHOOSE p \in t : p[1] = n)[2]

obj2name(t, v) == (CHOOSE p \in t : p[2] = v)[1]

\* ---- moat.util.get_proxy: the value gets the first free auto-name
get_proxy(t, v) ==
    LET free == {i \in 1..Len(AutoNames) : ~Knows(t, AutoNames[i])}
        n == AutoNames[CHOOSE i \in free : \A j \in free : i <= j]
    IN  <<t \cup {<<n, v>>}, n>>

\* ---- moat.util.as_proxy(name, obj, replace=True)
as_proxy(t, n, v) == {p \in t : p[1] # n /\ p[2] # v} \cup {<<n, v>>}

\* a placeholder is encoded like any other value
is_proxy_never(v) == FALSE

\* ---- _encode: "isinstance(obj, Proxy)"
is_proxy(v) == v.k = "proxy"

\* ---- _encode, as the pair <<table afterwards, what is sent>>
encode(t, v) ==
    IF is_proxy(v) THEN <<t, [tag |-> 4, name |-> v.id]>>
    ELSE IF Named(t, v) THEN <<t, [tag |-> 4, name |-> obj2name(t, v)]>>
    ELSE LET g == get_proxy(t, v) IN <<g[1], [tag |-> 4, name |-> g[2]]>>

\* ---- _decode, code 4
decode(t, x) == IF Knows(t, x.name) THEN name2obj(t, x.name) ELSE Placeholder(x.name)

\* prx.ta and prx.tb are the proxy tables of the originating side and of the
\* peer.  prx.at is the position of a round trip: "idle", "out" (encoded, on
\* the way to the peer), "peer" (decoded by the peer), "back" (encoded by the
\* peer, on the way back), "done" (decoded by the originating side).  Of the
\* trip prx keeps the value sent, the two encodings, the value the peer had
\* and the value that came back, and the tables as they were when it began.
NoExt == [tag |-> 0, name |-> ""]

NoVal == [k |-> "none", id |-> ""]

InitProxy ==
    /\ InitCore /\ idle_but_prx
    /\ prx \in {[pc |-> "proxy", ta |-> a, tb |-> b, at |-> "idle", trips |-> 0,
                 sent |-> NoVal, out |-> NoExt, peer |-> NoVal, back |-> NoExt,
                 got |-> NoVal, ta0 |-> a, tb0 |-> b] :
                    a \in Tables(PNames, ObjA), b \in Tables(PNames, ObjB)}

\* ---- as_proxy(n, v, replace=True) on the originating side, between two
\* round trips
Register(n, v) ==
    /\ prx.at \in {"idle", "done"}
    /\ prx' = [prx EXCEPT !.ta = as_proxy(prx.ta, n, v), !.at = "idle"]
    /\ UNCHANGED but_prx

\* ---- the originating side sends v: _encode
TripOut(v) ==
    /\ prx.at \in {"idle", "done"}
    /\ prx.trips < MaxTrips
    /\ LET e == encode(prx.ta, v)
       IN  prx' = [prx EXCEPT !.at = "out", !.trips = @ + 1, !.sent = v,
                              !.ta0 = prx.ta, !.tb0 = prx.tb,
                              !.ta = e[1], !.out = e[2],
                              !.peer = NoVal, !.back = NoExt, !.got = NoVal]
    /\ UNCHANGED but_prx

\* ---- the peer receives it: _decode
TripPeer ==
    /\ prx.at = "out"
    /\ prx' = [prx EXCEPT !.at = "peer", !.peer = decode(prx.tb, prx.out)]
    /\ UNCHANGED but_prx

\* ---- the peer sends back what it got: _encode
TripBack ==
    /\ prx.at = "peer"
    /\ LET e == encode(prx.tb, prx.peer)
       IN  prx' = [prx EXCEPT !.at = "back", !.tb = e[1], !.back = e[2]]
    /\ UNCHANGED but_prx

\* ---- the originating side receives the answer: _decode
TripDone ==
    /\ prx.at = "back"
    /\ prx' = [prx EXCEPT !.at = "done", !.got = decode(prx.ta, prx.back)]
    /\ UNCHANGED but_prx

NextProxy ==
    \/ \E n \in PNames, v \in ObjA : Register(n, v)
    \/ \E v \in ObjA : TripOut(v)
    \/ TripPeer \/ TripBack \/ TripDone

SpecProxy == InitProxy /\ [][NextProxy]_vars

\* the trip is that of a value that had a name the peer did not know
NamedTrip == Named(prx.ta0, prx.sent) /\ ~Knows(prx.tb0, obj2name(prx.ta0, prx.sent))

CfgKeys == <<"a", "z">>

CfgKeySet == {CfgKeys[i] : i \in 1..Len(CfgKeys)}

CfgValues == {1, 2}

None == [t |-> "none"]

Leaf(v) == [t |-> "leaf", v |-> v]

Del == [t |-> "del"]

Map(m) == [t |-> "map", m |-> m]

EmptyCfg == [k \in CfgKeySet |-> None]

Leaves == {Leaf(v) : v \in CfgValues}

\* the configurations and the updates, one and two levels deep
Cfg1 == [CfgKeySet -> {None} \cup Leaves]

Cfg2 == [CfgKeySet -> {None} \cup Leaves \cup {Map(m) : m \in Cfg1}]

Upd1 == [CfgKeySet -> {None, Del} \cup Leaves]

Upd2 == [CfgKeySet -> {None, Del} \cup Leaves \cup {Map(m) : m \in Upd1}]

\* deleting a key that is not there is no error
cfg_del_quiet(m, k) == [err |-> FALSE, m |-> [m EXCEPT ![k] = None]]

\* ---- SysCmd.cmd_cfg with d = NotGiven: "del cur[p[-1]]"
cfg_del(m, k) ==
    IF m[k] = None THEN [err |-> TRUE, m |-> m]
    ELSE [err |-> FALSE, m |-> [m EXCEPT ![k] = None]]

RECURSIVE cfg_set(_, _)
RECURSIVE set_keys(_, _, _)

\* ---- CfgStore.set._set, "for k, v in c.items()": the keys of the update
\* from the i-th on, applied to the mapping m at the client
set_keys(m, c, i) ==
    IF i > Len(CfgKeys) THEN [err |-> FALSE, m |-> m]
    ELSE LET k == CfgKeys[i]
             v == c[k]
         IN  CASE v.t = "none" -> set_keys(m, c, i + 1)
               [] v.t = "map" ->
                    LET r == cfg_set(m[k], v.m)
                        n == [m EXCEPT ![k] = r.node]
                    IN  IF r.err THEN [err |-> TRUE, m |-> n] ELSE set_keys(n, c, i + 1)
               [] v.t = "del" ->
                    LET r == cfg_del(m, k)
                    IN  IF r.err THEN r ELSE set_keys(r.m, c, i + 1)
               [] v.t = "leaf" -> set_keys([m EXCEPT ![k] = v], c, i + 1)

\* ---- CfgStore.set._set for the node cur at the client and the update c: a
\* missing node is written as {} first; a leaf has no keys to read or write
cfg_set(cur, c) ==
    IF cur.t = "leaf"
    THEN [err |-> \E k \in CfgKeySet : c[k] # None, node |-> cur]
    ELSE LET r == set_keys(IF cur.t = "none" THEN EmptyCfg ELSE cur.m, c, 1)
         IN  [err |-> r.err, node |-> Map(r.m)]

\* cfg.cur is the configuration of the client, cfg.upd the update, cfg.old
\* the configuration before the update; cfg.at tells whether set has run and
\* cfg.err whether it raised.
InitCfg ==
    /\ InitCore /\ idle_but_cfg
    /\ cfg \in {[pc |-> "cfg", cur |-> c, old |-> c, upd |-> u, at |-> "new",
                 err |-> FALSE] : c \in Cfg2, u \in Upd2}

\* ---- CfgStore.set(upd), replace = False
CfgSet ==
    /\ cfg.at = "new"
    /\ LET r == cfg_set(Map(cfg.cur), cfg.upd)
       IN  cfg' = [cfg EXCEPT !.at = "done", !.err = r.err, !.cur = r.node.m]
    /\ UNCHANGED but_cfg

NextCfg == CfgSet

SpecCfg == InitCfg /\ [][NextCfg]_vars

\* what the update asks for (an empty mapping names no key and leaves a leaf
\* alone)
RECURSIVE Merged(_, _)
Merged(m, c) ==
    [k \in CfgKeySet |->
        CASE c[k].t = "none" -> m[k]
          [] c[k].t = "del" -> None
          [] c[k].t = "leaf" -> c[k]
          [] c[k].t = "map" ->
                IF m[k].t = "leaf" /\ c[k].m = EmptyCfg THEN m[k]
                ELSE Map(Merged(IF m[k].t = "map" THEN m[k].m ELSE EmptyCfg, c[k].m))]

\* the update names no key for deletion that is absent and puts no mapping
\* where a leaf is
RECURSIVE Fits(_, _)
Fits(m, c) ==
    \A k \in CfgKeySet :
        /\ c[k].t = "del" => m[k] # None
        /\ c[k].t = "map" =>
            /\ m[k].t = "leaf" => c[k].m = EmptyCfg
            /\ m[k].t # "leaf" => Fits(IF m[k].t = "map" THEN m[k].m ELSE EmptyCfg, c[k].m)

\* C26: after set the configuration is the merge of the old one and the
\* update: given leaves have the new value, keys given as NotGiven are absent,
\* nested mappings are there, and all other keys are as before.
SetMerges ==
    cfg.at = "done" => cfg.cur = Merged(cfg.old, cfg.upd)

\* the same for the updates that fit the configuration
SetMergesFitting ==
    (cfg.at = "done" /\ Fits(cfg.old, cfg.upd)) =>
        (~cfg.err /\ cfg.cur = Merged(cfg.old, cfg.upd))

\* an update that does not fit raises
SetRaisesUnfitting ==
    (cfg.at = "done" /\ ~Fits(cfg.old, cfg.upd)) => cfg.err

\* ---------------------------------------------------------------------------
\* The receive queue
\* ---------------------------------------------------------------------------
\* ---- one session in which "b" submits more messages than the queue of "a"
\*      holds, and the upper layer of each side takes payloads when it likes;
\*      the transport may lose frames and keeps their order
NextQueue ==
    \E e \in E :
        \/ ep[e].run = "new" /\ Start(e)
        \/ ResetTimer(e)
        \/ RunUp(e)
        \/ BgSend(e)
        \/ \E k \in -1..(ep[e].window - 1) : BgTimeout(e, k)
        \/ e = "b" /\ Send(e, MaxMsgs)
        \/ Deliver(e, 1, FALSE)
        \/ \E i \in 1..MaxNet : Lose(e, i)
        \/ PutDone(e)
        \/ Recv(e)

SpecQueue == Init /\ [][NextQueue]_vars

CreationWindow(e) == IF e = "a" THEN WindowA ELSE WindowB

\* the payloads that left m_recv for the upper layer: those put into rq and
\* the one the reader holds while it waits in rq.put
Forwarded(e) ==
    ep[e].delivered \o (IF ep[e].put # 0 THEN <<ep[e].put>> ELSE <<>>)

\* C27: rq never holds more than its capacity, which is the window the
\* endpoint was created with; the reader waits in rq.put only while rq is
\* full, and then it dispatches nothing and rq changes only by the upper layer
\* taking a payload; what was put into rq and what the reader holds are, in
\* order, the first messages the peer submitted, and rq is the tail of what
\* was put.
QueueBounded ==
    /\ [](\A e \in E :
            /\ Len(ep[e].rq) <= ep[e].rqcap
            /\ ep[e].rqcap \in {0, CreationWindow(e)}
            /\ IsPrefix(Forwarded(e), Submitted(Peer(e)))
            /\ \E n \in 0..Len(ep[e].delivered) :
                    ep[e].rq = SubSeq(ep[e].delivered, n + 1, Len(ep[e].delivered)))
    /\ [][\A e \in E :
            (ep[e].put # 0 /\ Len(ep[e].rq) >= ep[e].rqcap) =>
                /\ Len(ep[e].rq) = ep[e].rqcap
                /\ ep'[e].put = ep[e].put
                /\ ep'[e].delivered = ep[e].delivered
                /\ ep'[e].m_recv = ep[e].m_recv
                /\ ep'[e].s_recv_tail = ep[e].s_recv_tail
                /\ ep'[e].s_recv_head = ep[e].s_recv_head
                /\ ep'[e].rq \in {ep[e].rq, Tail(ep[e].rq)}]_vars

\* C27 witness: the queue of "a" is full with the first messages of "b" and
\* the reader waits in rq.put with the next one
QueueBoundedWitness ==
    /\ ep["a"].rqcap = WindowA
    /\ ep["a"].rq = [i \in 1..WindowA |-> i]
    /\ ep["a"].put = WindowA + 1

\* ---------------------------------------------------------------------------
\* SubDispatch: a forwarder for a fixed path
\* ---------------------------------------------------------------------------
\* ---- SubDispatch.__init__: the walk along .sub as far as it goes.  A
\* handler that is no BaseSubCmd has no .sub (AttributeError), a BaseSubCmd
\* may lack the name (KeyError); both end the walk.
RECURSIVE Resolve(_, _, _)
Resolve(t, n, p) ==
    IF p = <<>> THEN [dest |-> n, rem |-> <<>>]
    ELSE IF t.kind[n] = "sub" /\ p[1] \in DOMAIN t.sub[n]
         THEN Resolve(t, t.sub[n][p[1]], Tail(p))
         ELSE [dest |-> n, rem |-> p]

\* the rest of the path is forgotten
sub_call_short(t, dest, rem, a) ==
    IF a # <<>> THEN Dispatch(t, dest, FALSE, a) ELSE Default(t, dest)

\* ---- SubDispatch.__call__
sub_call(t, dest, rem, a) ==
    IF rem # <<>> \/ a # <<>> THEN Dispatch(t, dest, FALSE, rem \o a)
    ELSE Default(t, dest)

Paths(n) == UNION {[1..k -> Chars] : k \in 0..n}

\* a tree, a path and a suffix are given
InitSub ==
    /\ ep = [e \in E |-> IF e = "a" THEN Construct(WindowA, TimeoutA, FALSE)
                                    ELSE Construct(WindowB, TimeoutB, FALSE)]
    /\ net = [e \in E |-> <<>>]
    /\ adv = 0
    /\ req = NewRequest
    /\ idle_side
    /\ disp \in {[pc |-> "sub", at |-> "new", t |-> t, p |-> p, a |-> a,
                  dest |-> "R", rem |-> <<>>, res |-> Failed("none")] :
                    t \in Trees, p \in Paths(MaxPath), a \in Paths(MaxSuffix)}

\* ---- Dispatch.sub_at(*p)
SubAt ==
    /\ disp.pc = "sub" /\ disp.at = "new"
    /\ LET r == Resolve(disp.t, "R", disp.p)
       IN  disp' = [disp EXCEPT !.at = "built", !.dest = r.dest, !.rem = r.rem]
    /\ UNCHANGED <<lower, req, side>>

\* ---- the SubDispatch is called with the suffix
SubCall ==
    /\ disp.pc = "sub" /\ disp.at = "built"
    /\ disp' = [disp EXCEPT !.at = "done",
                            !.res = sub_call(disp.t, disp.dest, disp.rem, disp.a)]
    /\ UNCHANGED <<lower, req, side>>

NextSub == SubAt \/ SubCall

SpecSub == InitSub /\ [][NextSub]_vars

\* what the root dispatcher does with the path and the suffix
FromRoot == Dispatch(disp.t, "R", FALSE, disp.p \o disp.a)

SubDone == disp.pc = "sub" /\ disp.at = "done"

Inside(w, a, b) == {k \in 0..(w - 1) : 0 < (k - a) % w /\ (k - a) % w < (b - a) % w}

\* C29: whenever no dispatch is under way, the distance from s_recv_tail to
\* s_recv_head modulo window is at most window/2, every key of m_recv lies
\* strictly between s_recv_tail and s_recv_head, and neither of the two is a
\* key of m_recv.
RecvWindowInv ==
    \A e \in E :
        ep[e].put = 0 =>
            /\ (ep[e].s_recv_head - ep[e].s_recv_tail) % ep[e].window <= ep[e].window \div 2
            /\ DOMAIN ep[e].m_recv \subseteq
                    Inside(ep[e].window, ep[e].s_recv_tail, ep[e].s_recv_head)
            /\ ep[e].s_recv_tail \notin DOMAIN ep[e].m_recv
            /\ ep[e].s_recv_head \notin DOMAIN ep[e].m_recv

\* C29 witness: a message is held out of order: the one before it is missing
RecvWindowInvWitness ==
    /\ ep["b"].put = 0
    /\ (ep["b"].s_recv_head - ep["b"].s_recv_tail) % ep["b"].window = 2
    /\ DOMAIN ep["b"].m_recv = {(ep["b"].s_recv_tail + 1) % ep["b"].window}

\* an endpoint that is up gets, as the next frame, a data message with
\* sequence number and acknowledgement inside the window
DataFor(e, msg) ==
    /\ ReaderIdle(e)
    /\ ~ep[e].closed /\ ~InReset(ep[e])
    /\ msg.a = "" /\ msg.d # 0
    /\ 0 <= msg.s /\ msg.s < ep[e].window
    /\ 0 <= msg.r /\ msg.r < ep[e].window

\* the distance of the message's sequence number from s_recv_tail
Ahead(e, msg) == (msg.s - ep[e].s_recv_tail) % ep[e].window

\* its sequence number is in [s_recv_tail, s_recv_head)
Held(e, msg) ==
    Ahead(e, msg) < (ep[e].s_recv_head - ep[e].s_recv_tail) % ep[e].window

RecvSame(e) ==
    /\ ep'[e].m_recv = ep[e].m_recv
    /\ ep'[e].s_recv_head = ep[e].s_recv_head
    /\ ep'[e].s_recv_tail = ep[e].s_recv_tail
    /\ ep'[e].delivered = ep[e].delivered

\* C30 as stated: the dispatch of a data message whose sequence number is in
\* [s_recv_tail, s_recv_head) leaves m_recv, s_recv_head and s_recv_tail as
\* they are and delivers nothing.
HeldIgnored ==
    [][\A e \in E, i \in 1..MaxNet, keep \in BOOLEAN :
          (i <= Len(net[e]) /\ DataFor(e, net[e][i]) /\ Held(e, net[e][i])
            /\ Deliver(e, i, keep)) => RecvSame(e)]_vars

\* C30 amended: such a message is stored in m_recv under its number and
\* s_recv_head stays; if the number is s_recv_tail the message is delivered,
\* with the messages held behind it (the reader may wait in rq.put with
\* one of them), and s_recv_tail moves on; if not,
\* s_recv_tail stays and nothing is delivered.  Ignored are the data messages
\* whose distance from s_recv_tail is window/2 or more.
HeldStored ==
    [][\A e \in E, i \in 1..MaxNet, keep \in BOOLEAN :
          (i <= Len(net[e]) /\ DataFor(e, net[e][i]) /\ Deliver(e, i, keep)) =>
            LET msg == net[e][i]
            IN  /\ Held(e, msg) =>
                    /\ ep'[e].s_recv_head = ep[e].s_recv_head
                    /\ IF msg.s = ep[e].s_recv_tail
                       THEN /\ ep'[e].s_recv_tail # ep[e].s_recv_tail
                            /\ msg.s \notin DOMAIN ep'[e].m_recv
                            /\ IsPrefix(ep[e].delivered \o <<msg.d>>,
                                        ep'[e].delivered \o
                                        (IF ep'[e].put # 0 THEN <<ep'[e].put>> ELSE <<>>))
                       ELSE /\ ep'[e].s_recv_tail = ep[e].s_recv_tail
                            /\ ep'[e].m_recv = MapPut(ep[e].m_recv, msg.s, msg.d)
                            /\ ep'[e].delivered = ep[e].delivered
                /\ Ahead(e, msg) >= ep[e].window \div 2 => RecvSame(e)]_vars

\* C30 witness: the frame next in line for "b" carries the message at
\* s_recv_tail, which was lost before, while the message after it is held
HeldStoredWitness ==
    /\ net["b"] # <<>>
    /\ DataFor("b", net["b"][1])
    /\ net["b"][1].s = ep["b"].s_recv_tail
    /\ Held("b", net["b"][1])
    /\ DOMAIN ep["b"].m_recv = {(ep["b"].s_recv_tail + 1) % ep["b"].window}

\* the upper layer of e gets nothing from the step: rq, the payload the reader
\* holds in rq.put and the history of rq.put stay as they are
NothingForwarded(e) ==
    /\ ep'[e].rq = ep[e].rq
    /\ ep'[e].put = ep[e].put
    /\ ep'[e].delivered = ep[e].delivered

\* C31: the dispatch of a data message whose sequence number r is outside the
\* receive window, (r - s_recv_tail) mod window >= window/2, leaves m_recv,
\* s_recv_head and s_recv_tail as they are and hands no payload to the upper
\* layer.
OutsideDropped ==
    [][\A e \in E, i \in 1..MaxNet, keep \in BOOLEAN :
          (i <= Len(net[e]) /\ DataFor(e, net[e][i])
            /\ Ahead(e, net[e][i]) >= ep[e].window \div 2
            /\ Deliver(e, i, keep)) =>
                /\ ep'[e].m_recv = ep[e].m_recv
                /\ ep'[e].s_recv_head = ep[e].s_recv_head
                /\ ep'[e].s_recv_tail = ep[e].s_recv_tail
                /\ NothingForwarded(e)]_vars

\* C31 witness: "b" has delivered messages and the frame next in line carries
\* one of them again; the sequence number is outside the receive window
OutsideDroppedWitness ==
    /\ net["b"] # <<>>
    /\ DataFor("b", net["b"][1])
    /\ Ahead("b", net["b"][1]) >= ep["b"].window \div 2
    /\ net["b"][1].d \in Range(ep["b"].delivered)
    /\ ep["b"].m_recv # EmptyMap

\* ---------------------------------------------------------------------------
\* The receive timer
\* ---------------------------------------------------------------------------
\* the bare ack of endpoint state s: its s_recv_tail and the numbers it holds
AckOf(s) == DataMsg(s.s_send_head, s.s_recv_tail, XList(s, s.s_recv_tail), 0)

\* C32: when an endpoint knows of outstanding messages (s_recv_tail differs
\* from s_recv_head) and its receive timer t_recv expires, what the endpoint
\* emits is an ack that carries its s_recv_tail and the list x of the numbers
\* it holds.
RecvTimeoutAcks ==
    \A e \in E :
        (ep[e].s_recv_tail # ep[e].s_recv_head /\ Expired(ep[e], -1)) =>
            Work(ep[e], -1).out = <<AckOf(ep[e])>>

\* what the expiry of t_recv does: the ack is sent if one is pending, and
\* nothing is sent otherwise
RecvTimeoutAcksIfPending ==
    \A e \in E :
        Expired(ep[e], -1) =>
            Work(ep[e], -1).out = IF ep[e].pend_ack THEN <<AckOf(ep[e])>> ELSE <<>>

\* the receive timer of "b" is armed, a message is outstanding and held ones
\* are to be listed, no ack is pending and no frame is in flight
RecvTimeoutQuiet ==
    /\ Quiescent
    /\ Expired(ep["b"], -1)
    /\ ep["b"].m_recv # EmptyMap
    /\ ~ep["b"].pend_ack

\* ---------------------------------------------------------------------------
\* The background task and its deadlines: Reliable._run_bg with a clock
\* ---------------------------------------------------------------------------
\* tmr holds what _run_bg works on, for one endpoint that is up: the clock now
\* (ticks_ms), timeout, the entries of m_send in the order they were inserted
\* (k the sequence number, d the payload, tx the deadline, set whether the
\* waiter is set), s_send_head as head, the number q of messages waiting in
\* s_q, t_recv (-1 for None), pend_ack, and the position of the task: "top"
\* at the head of its loop (running or waiting there), "sent" while it waits
\* in parent.send for the new message it has just sent, with ntx and nk
\* holding the deadline and entry it chose before, "crashed" once an exception
\* has ended it.  nd counts the messages sent.  bgout holds the frames the
\* task handed to parent.send in the last step (d = 0: a bare ack), re the
\* sequence number that step retransmitted, or -1.

NoEntry == -1

Has(tab, k) == \E i \in 1..Len(tab) : tab[i].k = k

Idx(tab, k) == CHOOSE i \in 1..Len(tab) : tab[i].k = k

\* the time from t to the deadline a
ticks_diff(a, t) == a - t

\* ---- Reliable._run_bg, "for k, mte in self.m_send.items()": the earliest
\*      deadline ntx and its entry nk among the entries whose waiter is not set
RECURSIVE choose(_, _, _, _)
choose(tab, i, t, cur) ==
    IF i > Len(tab) THEN cur
    ELSE LET txd == ticks_diff(tab[i].tx, t)
         IN  choose(tab, i + 1, t,
                IF (~cur.some \/ cur.ntx > txd) /\ ~tab[i].set
                THEN [some |-> TRUE, ntx |-> txd, nk |-> tab[i].k] ELSE cur)

\* ---- Reliable._run_bg, "calculate time to next action"
Chosen(s) ==
    choose(s.tab, 1, s.now,
           IF s.t_recv = -1 THEN [some |-> FALSE, ntx |-> 0, nk |-> NoEntry]
           ELSE [some |-> TRUE, ntx |-> ticks_diff(s.t_recv, s.now), nk |-> NoEntry])

\* ---- Reliable._run_bg, "# work", with Reliable.send_msg: retransmit entry
\*      nk and arm its deadline again, send the pending ack, arm t_recv
work(s, nk) ==
    LET i == Idx(s.tab, nk)
        s1 == IF nk # NoEntry
              THEN [s EXCEPT !.tab[i].tx = s.now + s.timeout, !.pend_ack = FALSE,
                             !.bgout = <<[s |-> nk, d |-> s.tab[i].d]>>, !.re = nk]
              ELSE [s EXCEPT !.bgout = <<>>, !.re = NoEntry]
        s2 == IF s1.pend_ack
              THEN [s1 EXCEPT !.pend_ack = FALSE,
                              !.bgout = Append(s1.bgout, [s |-> s.head, d |-> 0])]
              ELSE s1
        s3 == IF nk = NoEntry THEN [s2 EXCEPT !.t_recv = s.now + s.timeout] ELSE s2
    IN  [s3 EXCEPT !.pc = "top"]

InitTimer ==
    /\ InitCore /\ idle_but_tmr
    /\ tmr \in {[pc |-> "top", window |-> WindowDefault, timeout |-> t, now |-> 0,
                  tab |-> <<>>, head |-> 0, q |-> 0, nd |-> 0,
                  t_recv |-> -1, pend_ack |-> TRUE,
                  ntx |-> 0, nk |-> NoEntry, bgout |-> <<>>, re |-> NoEntry] :
                    t \in 1..MaxDelay}

Quiet(s) == [s EXCEPT !.bgout = <<>>, !.re = NoEntry]

\* ---- time passes
Tick ==
    /\ tmr.pc \in {"top", "sent"}
    /\ tmr.now < MaxClock
    /\ tmr' = [Quiet(tmr) EXCEPT !.now = tmr.now + 1]
    /\ UNCHANGED but_tmr

\* ---- Reliable.send: a message is appended to s_q
Submit ==
    /\ tmr.pc \in {"top", "sent"}
    /\ tmr.nd + tmr.q < MaxSends
    /\ tmr' = [Quiet(tmr) EXCEPT !.q = tmr.q + 1]
    /\ UNCHANGED but_tmr

\* ---- Reliable._run_bg, one turn of the loop from its head: with a message
\*      in s_q and room in the window the message is sent, and the task waits
\*      in parent.send before it does the work it has chosen; otherwise the
\*      work is done at once if the earliest deadline has passed
Turn ==
    /\ tmr.pc = "top"
    /\ LET c == Chosen(tmr)
           due == c.some /\ c.ntx <= 0
       IN  IF tmr.q > 0 /\ Len(tmr.tab) < tmr.window \div 2
           THEN tmr' = [tmr EXCEPT
                          !.q = tmr.q - 1,
                          !.head = (tmr.head + 1) % tmr.window,
                          !.nd = tmr.nd + 1,
                          !.tab = Append(tmr.tab, [k |-> tmr.head, d |-> tmr.nd + 1,
                                                   tx |-> tmr.now + tmr.timeout,
                                                   set |-> FALSE]),
                          !.pend_ack = FALSE,
                          !.bgout = <<[s |-> tmr.head, d |-> tmr.nd + 1]>>,
                          !.re = NoEntry,
                          !.pc = IF due THEN "sent" ELSE "top",
                          !.ntx = IF due THEN c.ntx ELSE 0,
                          !.nk = IF due THEN c.nk ELSE NoEntry]
           ELSE /\ due
                /\ tmr' = work(tmr, c.nk)
    /\ UNCHANGED but_tmr

\* ---- Reliable._run_bg resumes after parent.send and does the work it chose
\*      before: "self.m_send[k]" in send_msg raises KeyError if the entry is
\*      gone, which ends the task
Resume ==
    /\ tmr.pc = "sent"
    /\ tmr' = IF tmr.nk # NoEntry /\ ~Has(tmr.tab, tmr.nk)
              THEN [Quiet(tmr) EXCEPT !.pc = "crashed", !.ntx = 0, !.nk = NoEntry]
              ELSE [work(tmr, tmr.nk) EXCEPT !.ntx = 0, !.nk = NoEntry]
    /\ UNCHANGED but_tmr

\* ---- Reliable.dispatch of an ack of the peer: its r frees the first n
\*      entries, its x lists the entries xs behind the first one that is left,
\*      t_recv is armed or cleared, and the ack in answer leaves none pending
PeerAck(n, xs, arm) ==
    /\ tmr.pc \in {"top", "sent"}
    /\ n \in 0..Len(tmr.tab)
    /\ LET rest == SubSeq(tmr.tab, n + 1, Len(tmr.tab))
       IN  /\ n > 0 \/ xs # {}
           /\ xs \subseteq 2..Len(rest)
           /\ tmr' = [Quiet(tmr) EXCEPT
                        !.tab = [i \in 1..Len(rest) |->
                                    IF i \in xs THEN [rest[i] EXCEPT !.set = TRUE]
                                                ELSE rest[i]],
                        !.t_recv = IF arm THEN tmr.now + tmr.timeout ELSE -1,
                        !.pend_ack = FALSE]
    /\ UNCHANGED but_tmr

NextTimer ==
    \/ Tick
    \/ Submit
    \/ Turn
    \/ Resume
    \/ \E n \in 0..MaxSends, xs \in SUBSET (2..MaxSends), arm \in BOOLEAN : PeerAck(n, xs, arm)

SpecTimer == InitTimer /\ [][NextTimer]_vars

\* the entry with sequence number k
Entry(tab, k) == tab[Idx(tab, k)]

\* the waiter of entry k is not set and its deadline has passed
Overdue(s, k) == Has(s.tab, k) /\ ~Entry(s.tab, k).set /\ Entry(s.tab, k).tx <= s.now

\* the step retransmits entry k: same number, same payload, deadline armed
\* again to now + timeout
Retransmits(k) ==
    /\ tmr'.re = k
    /\ Has(tmr.tab, k) /\ Has(tmr'.tab, k)
    /\ tmr'.bgout # <<>>
    /\ tmr'.bgout[1] = [s |-> k, d |-> Entry(tmr.tab, k).d]
    /\ Entry(tmr'.tab, k).d = Entry(tmr.tab, k).d
    /\ Entry(tmr'.tab, k).tx = tmr'.now + tmr.timeout

\* C33: what the background task retransmits is an entry whose deadline has
\* passed and whose waiter is not set, with the same sequence number and
\* payload, and its deadline is armed again to now + timeout; an entry whose
\* waiter is set (the peer has listed it in x) is never retransmitted.
RetransmitsOverdueOnly ==
    [][\A k \in 0..(WindowDefault - 1) :
          tmr'.re = k => (Overdue(tmr, k) /\ Retransmits(k))]_vars

\* what holds: a turn of the loop that starts at its head retransmits the
\* overdue entry it chooses, and no other, and does not fail
RetransmitsChosen ==
    [][tmr.pc = "top" =>
         /\ tmr'.pc # "crashed"
         /\ \A k \in 0..(WindowDefault - 1) :
               tmr'.re = k => (Overdue(tmr, k) /\ Retransmits(k))]_vars

\* the task has retransmitted an entry whose waiter was set while the task
\* waited in parent.send
RetransmitsSetEntry ==
    /\ tmr.re # NoEntry
    /\ Has(tmr.tab, tmr.re)
    /\ Entry(tmr.tab, tmr.re).set

\* ---------------------------------------------------------------------------
\* The fields of the frames an endpoint emits
\* ---------------------------------------------------------------------------
\* the keys of m_recv in window order from s_recv_tail: at distance j and more
RECURSIVE HeldFrom(_, _)
HeldFrom(s, j) ==
    IF j = s.window THEN <<>>
    ELSE LET k == (s.s_recv_tail + j) % s.window
         IN  (IF k \in DOMAIN s.m_recv THEN <<k>> ELSE <<>>) \o HeldFrom(s, j + 1)

\* C34: every data or ack message an endpoint emits carries as r the
\* s_recv_tail the endpoint has at that moment, and as x the keys of m_recv in
\* window order from s_recv_tail; x is absent (empty) exactly when m_recv is
\* empty.
EmittedFields ==
    [][\A e \in E : \A j \in 1..Len(Emitted(e)) :
          Emitted(e)[j].a = "" =>
              /\ Emitted(e)[j].r = ep'[e].s_recv_tail
              /\ Emitted(e)[j].x = HeldFrom(ep'[e], 0)
              /\ (Emitted(e)[j].x = <<>>) <=> (ep'[e].m_recv = EmptyMap)]_vars

\* C34 witness: the frame "b" has emitted last carries the s_recv_tail of "b"
\* and lists the message "b" holds out of order
EmittedFieldsWitness ==
    /\ ep["b"].m_recv # EmptyMap
    /\ net["a"] # <<>>
    /\ LET f == net["a"][Len(net["a"])]
       IN  /\ f.a = ""
           /\ f.r = ep["b"].s_recv_tail
           /\ f.r # 0
           /\ f.x # <<>>
           /\ f.x = HeldFrom(ep["b"], 0)

\* ---------------------------------------------------------------------------
\* Sequence numbers out of bounds
\* ---------------------------------------------------------------------------
\* the lower layer hands e a data or ack message whose s or r is not in
\* 0 .. window-1 (a damaged frame, or one of a peer that counts otherwise)
OutOfBounds(w, f) == ~(0 <= f.s /\ f.s < w) \/ ~(0 <= f.r /\ f.r < w)

Garble(e, s, r, d) ==
    /\ ~ep[e].closed /\ ~InReset(ep[e])
    /\ Len(net[e]) < MaxNet
    /\ OutOfBounds(ep[e].window, DataMsg(s, r, <<>>, d))
    /\ net' = [net EXCEPT ![e] = Append(net[e], DataMsg(s, r, <<>>, d))]
    /\ UNCHANGED <<ep, adv, upper>>

\* ---- one session over a transport that keeps the order of the frames and
\*      may damage them on their way to "a"; "a" submits messages
NextBounds ==
    \E e \in E :
        \/ ep[e].run = "new" /\ Start(e)
        \/ ResetTimer(e)
        \/ RunUp(e)
        \/ BgSend(e)
        \/ \E k \in -1..(ep[e].window - 1) : BgTimeout(e, k)
        \/ e = "a" /\ Send(e, MaxSeq)
        \/ Deliver(e, 1, FALSE)
        \/ e = "a" /\ \E s, r \in {-1, 0, ep[e].window}, d \in {0, 1} : Garble(e, s, r, d)

SpecBounds == Init /\ [][NextBounds]_vars

\* endpoint e is up and the frame next in line for it is a data or ack
\* message with s or r out of bounds
OutOfBoundsNext(e) ==
    /\ ReaderIdle(e)
    /\ ~ep[e].closed /\ ~InReset(ep[e])
    /\ net[e] # <<>>
    /\ net[e][1].a = ""
    /\ OutOfBounds(ep[e].window, net[e][1])

\* C35: when an endpoint that is up dispatches a data or ack message whose s
\* or r is outside 0 .. window-1, the four counters are 0 again, m_send,
\* m_recv and the pending-send queue are empty, the endpoint is in reset phase
\* 1, it emits a control message n=1 that carries an error, no payload is
\* delivered and no waiter of a send is completed.
OutOfBoundsResets ==
    [][\A e \in E :
          (OutOfBoundsNext(e) /\ Deliver(e, 1, FALSE)) =>
              /\ ep'[e].s_send_head = 0 /\ ep'[e].s_send_tail = 0
              /\ ep'[e].s_recv_head = 0 /\ ep'[e].s_recv_tail = 0
              /\ ep'[e].m_send = EmptyMap /\ ep'[e].m_recv = EmptyMap
              /\ ep'[e].s_q = <<>>
              /\ InReset(ep'[e]) /\ ep'[e].reset_level = 1
              /\ Len(Emitted(e)) = 1
              /\ Emitted(e)[1].a = "r" /\ Emitted(e)[1].n = 1 /\ Emitted(e)[1].e # ""
              /\ NothingForwarded(e)
              /\ ep'[e].evt = ep[e].evt]_vars

\* C35 witness: "a" has been reset by a message out of bounds while a message
\* was in flight and another one waited: it is in reset phase 1 with empty
\* tables, and the control message with the error is on its way
OutOfBoundsResetsWitness ==
    /\ InReset(ep["a"]) /\ ep["a"].reset_level = 1
    /\ ep["a"].is_up
    /\ Len(ep["a"].evt) >= 2
    /\ ep["a"].evt[1] = "wait" /\ ep["a"].evt[2] = "wait"
    /\ ep["a"].m_send = EmptyMap /\ ep["a"].s_q = <<>>
    /\ net["b"] # <<>>
    /\ net["b"][Len(net["b"])].e # ""

\* ---------------------------------------------------------------------------
\* The waiters of accepted sends
\* ---------------------------------------------------------------------------
\* the waiters the endpoint can still reach: those of the entries of m_send
\* and of the messages in the pending-send queue
Reachable(s) == Range(s.m_send) \cup Range(s.s_q)

\* C36: no accepted send's waiter is dropped without being completed: a send
\* call that has not returned or raised has its waiter in m_send or in the
\* pending-send queue, where an ack or the end of run completes it, also
\* after a reset of the endpoint or a closure announced by the peer.
NoWaiterDropped ==
    \A e \in E : \A i \in DOMAIN ep[e].evt :
        ep[e].evt[i] = "wait" => i \in Reachable(ep[e])

\* what holds: a waiter leaves m_send and the pending-send queue uncompleted
\* only in a step that resets the endpoint
WaiterDroppedByReset ==
    [][\A e \in E : \A i \in DOMAIN ep[e].evt :
          (i \in Reachable(ep[e]) /\ i \notin Reachable(ep'[e]) /\ ep'[e].evt[i] = "wait")
            => (InReset(ep'[e]) /\ ep'[e].m_send = EmptyMap /\ ep'[e].s_q = <<>>)]_vars

\* ---------------------------------------------------------------------------
\* send on a closed endpoint
\* ---------------------------------------------------------------------------
\* send that does not look at closed
send_unchecked(s) ==
    [s EXCEPT !.evt = Append(s.evt, "wait"),
              !.s_q = Append(s.s_q, Len(s.evt) + 1)]

\* ---- Reliable.send up to "await evt.wait()": the call raises ChannelClosed
\*      ("err" as the outcome of the call) if the endpoint is closed, else its
\*      message and waiter are appended to s_q
send(s) ==
    IF s.closed THEN [s EXCEPT !.evt = Append(s.evt, "err")]
    ELSE [s EXCEPT !.evt = Append(s.evt, "wait"),
                   !.s_q = Append(s.s_q, Len(s.evt) + 1)]

\* ---- the upper layer, once started by run, calls send whatever the state of
\*      the endpoint is
SendAnyTime(e, quota) ==
    /\ ep[e].run = "child"
    /\ Len(ep[e].evt) < quota
    /\ ep[e].closed \/ Len(ep[e].s_q) < MaxQueue
    /\ ep' = [ep EXCEPT ![e] = send(ep[e])]
    /\ UNCHANGED <<net, adv, upper>>

\* ---- one run of each endpoint over a transport that keeps the order of the
\*      frames; the run of "b" may end, which announces its closure to "a";
\*      the upper layer of "a" goes on calling send
NextClosed ==
    \E e \in E :
        \/ ep[e].run = "new" /\ Start(e)
        \/ ResetTimer(e)
        \/ RunUp(e)
        \/ e = "b" /\ RunExit(e)
        \/ BgSend(e)
        \/ BgExit(e)
        \/ \E k \in -1..(ep[e].window - 1) : BgTimeout(e, k)
        \/ e = "a" /\ SendAnyTime(e, MaxLiveMsgs)
        \/ Deliver(e, 1, FALSE)
        \/ Lose(e, 1)

SpecClosed == Init /\ [][NextClosed]_vars

\* C37: a call of send while the endpoint is closed raises ChannelClosed at
\* once and leaves the pending-send queue, the send table and the four
\* counters as they are.
ClosedSendRaises ==
    [][\A e \in E :
          (ep[e].closed /\ SendAnyTime(e, MaxLiveMsgs)) =>
              /\ ep'[e].evt = Append(ep[e].evt, "err")
              /\ ep'[e].s_q = ep[e].s_q
              /\ ep'[e].m_send = ep[e].m_send
              /\ ep'[e].s_send_head = ep[e].s_send_head
              /\ ep'[e].s_send_tail = ep[e].s_send_tail
              /\ ep'[e].s_recv_head = ep[e].s_recv_head
              /\ ep'[e].s_recv_tail = ep[e].s_recv_tail]_vars

\* C37 witness: the peer has announced its closure while a message of "a" was
\* in flight and another one waited in the queue; a further send has raised
ClosedSendRaisesWitness ==
    /\ ep["a"].closed /\ ep["a"].run = "child"
    /\ ep["a"].m_send # EmptyMap /\ ep["a"].s_q # <<>>
    /\ Len(ep["a"].evt) = MaxLiveMsgs
    /\ ep["a"].evt[MaxLiveMsgs] = "err"
    /\ ep["a"].evt[1] = "wait"

\* ---------------------------------------------------------------------------
\* The end of the exchange of acks
\* ---------------------------------------------------------------------------
\* the number of messages the upper layer of e submits
Quota(e) == IF e = "a" THEN MaxSeq ELSE MaxRunMsgs

\* ---- one session over a transport that keeps the order of the frames and
\*      loses none; both endpoints submit messages; the retry timers may
\*      expire at any time
NextAcks ==
    \E e \in E :
        \/ ep[e].run = "new" /\ Start(e)
        \/ LateResetTimer(e)
        \/ RunUp(e)
        \/ BgSend(e)
        \/ \E k \in -1..(ep[e].window - 1) : BgTimeout(e, k)
        \/ Send(e, Quota(e))
        \/ Deliver(e, 1, FALSE)

\* the tasks of a running endpoint are scheduled and the transport delivers
FairAcks ==
    \A e \in E :
        /\ WF_vars(ep[e].run = "new" /\ Start(e))
        /\ WF_vars(LateResetTimer(e))
        /\ WF_vars(RunUp(e))
        /\ WF_vars(BgSend(e))
        /\ WF_vars(Deliver(e, 1, FALSE))

SpecAcks == Init /\ [][NextAcks]_vars /\ FairAcks

\* both endpoints are up, every message that may be submitted has been
\* submitted, delivered to the peer's upper layer and acknowledged
AllDone ==
    \A e \in E :
        /\ ep[e].run = "child" /\ ~ep[e].closed /\ ~InReset(ep[e])
        /\ Len(ep[e].evt) = Quota(e)
        /\ \A i \in 1..Quota(e) : ep[e].evt[i] = "ok"
        /\ ep[e].m_send = EmptyMap /\ ep[e].s_q = <<>>
        /\ ep[Peer(e)].delivered = Submitted(e)

\* C38: once both endpoints are up, all submitted data has been delivered and
\* acknowledged and no further send is submitted, the exchange of bare acks
\* comes to an end: from some point on no frame is in flight any more.
AcksStop == AllDone ~> [](Quiescent)

\* C38 witness: all is delivered and acknowledged in both directions and the
\* last ack has been taken without an answer
AcksStopWitness ==
    /\ AllDone
    /\ Quiescent
    /\ \A e \in E : ~ep[e].pend_ack

\* ---------------------------------------------------------------------------
\* DirCmd.task and DirCmd.reload
\* ---------------------------------------------------------------------------
\* rl holds the position of DirCmd.task ("new" before it runs, "pass" inside
\* _setup_apps, "wait" in self._updated.wait()), the number n of passes of
\* _setup_apps started so far, whether the event _updated is set, the
\* generation gen of the event _did_update (task replaces the event after it
\* has set it), and per caller of reload: st ("idle", "wait" in
\* self._did_update.wait(), "done" after the return), the generation of the
\* event it waits on, the number at of passes started before its call, and
\* the number ret of the pass whose end let it return.
NoReload == [st |-> "idle", gen |-> 0, at |-> 0, ret |-> 0]

\* ---- DirCmd.__init__
InitReload ==
    /\ InitCore /\ idle_but_rl
    /\ rl = [pc |-> "new", n |-> 0, updated |-> FALSE, gen |-> 0,
             call |-> [c \in Callers |-> NoReload]]

\* ---- DirCmd.task up to the first await inside _setup_apps
TaskStart ==
    /\ rl.pc = "new"
    /\ rl' = [rl EXCEPT !.pc = "pass", !.n = 1]
    /\ UNCHANGED but_rl

\* the callers that wait on the event of generation g return: pass p has ended
Woken(call, g, p) ==
    [c \in Callers |->
        IF call[c].st = "wait" /\ call[c].gen = g
        THEN [call[c] EXCEPT !.st = "done", !.ret = p] ELSE call[c]]

\* ---- DirCmd.task: _setup_apps returns, _did_update is set and replaced;
\*      if _updated is set its wait returns at once, the event is replaced
\*      and the next pass starts, else the task waits
PassEnd ==
    /\ rl.pc = "pass"
    /\ rl.updated => rl.n < MaxPasses
    /\ rl' = [rl EXCEPT !.call = Woken(rl.call, rl.gen, rl.n),
                        !.gen = rl.gen + 1,
                        !.updated = FALSE,
                        !.pc = IF rl.updated THEN "pass" ELSE "wait",
                        !.n = IF rl.updated THEN rl.n + 1 ELSE rl.n]
    /\ UNCHANGED but_rl

\* ---- DirCmd.task: "await self._updated.wait()" returns, the event is
\*      replaced and the next pass starts
Wake ==
    /\ rl.pc = "wait"
    /\ rl.updated
    /\ rl.n < MaxPasses
    /\ rl' = [rl EXCEPT !.updated = FALSE, !.pc = "pass", !.n = rl.n + 1]
    /\ UNCHANGED but_rl

\* ---- DirCmd.reload: set _updated, wait on the present _did_update
Reload(c) ==
    /\ rl.call[c].st = "idle"
    /\ rl' = [rl EXCEPT !.updated = TRUE,
                        !.call[c] = [st |-> "wait", gen |-> rl.gen, at |-> rl.n,
                                     ret |-> 0]]
    /\ UNCHANGED but_rl

\* ---- the caller of a reload that has returned may call again
Again(c) ==
    /\ rl.call[c].st = "done"
    /\ rl' = [rl EXCEPT !.call[c] = NoReload]
    /\ UNCHANGED but_rl

NextReload ==
    \/ TaskStart
    \/ PassEnd
    \/ Wake
    \/ \E c \in Callers : Reload(c) \/ Again(c)

SpecReload == InitReload /\ [][NextReload]_vars

\* C39: a reload returns only at the end of a pass of _setup_apps that
\* started after the reload was called, also when it is called while an
\* earlier pass is running.
ReloadSeesOwnPass ==
    \A c \in Callers : rl.call[c].st = "done" => rl.call[c].ret > rl.call[c].at

\* what holds: a reload returns at the end of the first pass that ends after
\* its call, which started after the call unless a pass was running then
ReloadSeesNextEnd ==
    \A c \in Callers :
        rl.call[c].st = "done" =>
            /\ rl.call[c].ret >= rl.call[c].at
            /\ rl.call[c].ret >= 1

\* a reload called during pass 1 has returned at the end of pass 1, and the
\* pass it asked for has only started
ReloadReturnedEarly ==
    \E c \in Callers :
        /\ rl.call[c].st = "done" /\ rl.call[c].at = 1 /\ rl.call[c].ret = 1
        /\ rl.pc = "pass" /\ rl.n = 2

\* ---------------------------------------------------------------------------
\* BaseSuperCmd.start_app and the task marker of an app
\* ---------------------------------------------------------------------------
\* sa holds, for one app: its marker p_task ("None", "False" while a spawn is
\* under way, "task" for the handle of a spawned task), the number live of
\* tasks that run the app, the number n of calls of start_app so far, and per
\* caller of start_app the position of its call: "idle", "spawning" (inside
\* "await self.tg.spawn", the task not yet created), "spawned" (the task is
\* created and may run, spawn has not yet returned to start_app), and the
\* outcomes "done" (spawned), "reloaded" (app.reload was called) and
\* "raised".
InitStart ==
    /\ InitCore /\ idle_but_sa
    /\ sa = [pc |-> "app", p_task |-> "None", live |-> 0, n |-> 0,
             call |-> [c \in Callers |-> "idle"]]

InSpawn(c) == sa.call[c] \in {"spawning", "spawned"}

\* ---- BaseSuperCmd.start_app up to "await self.tg.spawn"
StartApp(c) ==
    /\ ~InSpawn(c)
    /\ sa.n < MaxChildRuns
    /\ sa' = [sa EXCEPT !.n = sa.n + 1,
                        !.call[c] = IF sa.p_task = "task" THEN "reloaded"
                                    ELSE IF sa.p_task = "False" THEN "raised"
                                    ELSE "spawning",
                        !.p_task = IF sa.p_task = "None" THEN "False" ELSE sa.p_task]
    /\ UNCHANGED but_sa

\* ---- tg.spawn creates the task that runs _run(app)
TaskCreated(c) ==
    /\ sa.call[c] = "spawning"
    /\ sa' = [sa EXCEPT !.call[c] = "spawned", !.live = sa.live + 1]
    /\ UNCHANGED but_sa

\* ---- start_app, "app.p_task = await self.tg.spawn(_run, app)" completes
SpawnReturns(c) ==
    /\ sa.call[c] = "spawned"
    /\ sa' = [sa EXCEPT !.call[c] = "done", !.p_task = "task"]
    /\ UNCHANGED but_sa

\* ---- start_app, "except BaseException: app.p_task = None; raise"
SpawnRaises(c) ==
    /\ sa.call[c] = "spawning"
    /\ sa' = [sa EXCEPT !.call[c] = "raised", !.p_task = "None"]
    /\ UNCHANGED but_sa

\* ---- _run: app.run() returns, raises or is cancelled;
\*      "finally: app.p_task = None"
RunFinally ==
    /\ sa.live > 0
    /\ sa' = [sa EXCEPT !.live = sa.live - 1, !.p_task = "None"]
    /\ UNCHANGED but_sa

NextStart ==
    \/ \E c \in Callers : StartApp(c)
    \/ \E c \in Callers : TaskCreated(c)
    \/ \E c \in Callers : SpawnReturns(c)
    \/ \E c \in Callers : SpawnRaises(c)
    \/ RunFinally

SpecStart == InitStart /\ [][NextStart]_vars

\* no call of start_app is inside tg.spawn
NoSpawn == sa.pc = "app" => \A c \in Callers : ~InSpawn(c)

\* C40: an app has at most one run task at any time; start_app on an app
\* whose task is live reloads it instead of spawning, start_app on an app that
\* is being spawned raises, and once the app's run has ended its marker is
\* None again, so that it can be started again.
OneRunTask ==
    /\ [](sa.pc = "app" =>
            /\ sa.live <= 1
            /\ (sa.live = 0 /\ NoSpawn) => sa.p_task = "None")
    /\ [][\A c \in Callers : StartApp(c) =>
            /\ sa.p_task = "task" => sa'.call[c] = "reloaded" /\ sa'.live = sa.live
            /\ sa.p_task = "False" => sa'.call[c] = "raised" /\ sa'.live = sa.live]_vars

\* What holds of the code: at most one run task, a reload for a set marker,
\* an error for a spawn under way.
OneRunTaskOnly ==
    /\ [](sa.pc = "app" => sa.live <= 1)
    /\ [][\A c \in Callers : StartApp(c) =>
            /\ sa.p_task = "task" => sa'.call[c] = "reloaded" /\ sa'.live = sa.live
            /\ sa.p_task = "False" => sa'.call[c] = "raised" /\ sa'.live = sa.live]_vars

\* The run ended before tg.spawn returned: the marker names a task that is
\* gone, and the next start_app reloads instead of spawning.
StaleMarker ==
    /\ sa.pc = "app" /\ sa.live = 0 /\ NoSpawn /\ sa.p_task = "task"
    /\ \E c \in Callers : sa.call[c] = "reloaded"
====
